---- MODULE Spec2Model ----
(***************************************************************************)
(* Model of the QR code generator's generation orchestrator, render cache, *)
(* debounce timer and cache key (js/main.js).  The repository ships two    *)
(* builds of main.js: the IIFE build (CONSTANTS/state.qrCache, lines       *)
(* 1-1211) and the ES-module build (CONFIG/state.cache, lines 1212-2031).  *)
(* The variable `build` selects which one a behaviour runs.                *)
(*                                                                         *)
(* Text is a sequence of chunks: text typed by the user is one character   *)
(* per element, a literal of the source is kept as one chunk.              *)
(***************************************************************************)
EXTENDS Integers, Sequences, FiniteSets, TLC

\* ---------------------------------------------------------------- constants
MAX_CACHE_SIZE == 10
DEBOUNCE_DELAY == 200
INITIAL_GENERATION_DELAY == 300
SliderMin == 200

\* ------------------------------------------------------------------- bounds
NumSizes == 16
MaxExtras == 1
MaxNesting == 2

Builds == {"iife", "module"}

\* ------------------------------------------------------------ text helpers
Min(a, b) == IF a < b THEN a ELSE b

RECURSIVE SeqSum(_)
SeqSum(s) == IF s = <<>> THEN 0 ELSE Head(s) + SeqSum(Tail(s))

RECURSIVE Flatten(_)
Flatten(ss) == IF ss = <<>> THEN <<>> ELSE Head(ss) \o Flatten(Tail(ss))

\* the JavaScript string a sequence of chunks stands for
RECURSIVE Str(_)
Str(s) == IF s = <<>> THEN "" ELSE Head(s) \o Str(Tail(s))

Digits == <<"0", "1", "2", "3", "4", "5", "6", "7", "8", "9">>

DigitVal(c) == (CHOOSE i \in 1..10 : Digits[i] = c) - 1

\* String(n): the decimal text of a non-negative integer
RECURSIVE NatToText(_)
NatToText(n) == IF n < 10 THEN <<Digits[n + 1]>>
                ELSE NatToText(n \div 10) \o <<Digits[(n % 10) + 1]>>

\* parseInt(text, 10) on a text of decimal digits
RECURSIVE parseIntAcc(_, _)
parseIntAcc(s, acc) == IF s = <<>> THEN acc
                       ELSE parseIntAcc(Tail(s), acc * 10 + DigitVal(Head(s)))

parseInt(s) == parseIntAcc(s, 0)

\* A lone UTF-16 surrogate (a code unit U+D800 without its pair)
LoneSurrogate == "\\uD800"

Ok(v) == [ok |-> TRUE, val |-> v]
Throw(e) == [ok |-> FALSE, err |-> e]

\* ------------------------------------------------------- content encoder
\* DOMPurify.sanitize(input, {ALLOWED_TAGS: [], KEEP_CONTENT: true}): markup
\* from "<" to the next ">" is removed (an unclosed "<" swallows the rest),
\* the remaining text is serialised with "&" and ">" as entities.
RECURSIVE StripTags(_, _)
StripTags(s, inTag) ==
    IF s = <<>> THEN <<>>
    ELSE IF inTag
         THEN StripTags(Tail(s), Head(s) # ">")
         ELSE IF Head(s) = "<" THEN StripTags(Tail(s), TRUE)
              ELSE IF Head(s) = "&" THEN <<"&amp;">> \o StripTags(Tail(s), FALSE)
              ELSE IF Head(s) = ">" THEN <<"&gt;">> \o StripTags(Tail(s), FALSE)
              ELSE <<Head(s)>> \o StripTags(Tail(s), FALSE)

sanitizeInput(input) == StripTags(input, FALSE)

PctEncode(c) ==
    CASE c = " "  -> "%20"
      [] c = "\"" -> "%22"
      [] c = "#"  -> "%23"
      [] c = "%"  -> "%25"
      [] c = "&"  -> "%26"
      [] c = ","  -> "%2C"
      [] c = "/"  -> "%2F"
      [] c = ":"  -> "%3A"
      [] c = ";"  -> "%3B"
      [] c = "<"  -> "%3C"
      [] c = "="  -> "%3D"
      [] c = ">"  -> "%3E"
      [] c = "?"  -> "%3F"
      [] c = "\\" -> "%5C"
      [] c = "&amp;" -> "%26amp%3B"
      [] c = "&gt;" -> "%26gt%3B"
      [] OTHER    -> c

\* encodeURIComponent: throws URIError on a lone surrogate
encodeURIComponent(s) ==
    IF \E i \in 1..Len(s) : s[i] = LoneSurrogate
    THEN Throw("URI malformed")
    ELSE Ok([i \in 1..Len(s) |-> PctEncode(s[i])])

\* a || b on strings: the empty string is falsy
OrElse(a, b) == IF a = <<>> THEN b ELSE a

RECURSIVE JoinWith(_, _)
JoinWith(parts, sep) ==
    IF parts = <<>> THEN <<>>
    ELSE IF Len(parts) = 1 THEN Head(parts)
    ELSE Head(parts) \o <<sep>> \o JoinWith(Tail(parts), sep)

\* String.prototype.split(' '): the parts between the spaces, empty ones kept
RECURSIVE SplitAcc(_, _, _)
SplitAcc(s, sep, cur) ==
    IF s = <<>> THEN <<cur>>
    ELSE IF Head(s) = sep THEN <<cur>> \o SplitAcc(Tail(s), sep, <<>>)
    ELSE SplitAcc(Tail(s), sep, Append(cur, Head(s)))

split(s, sep) == SplitAcc(s, sep, <<>>)

\* the characters of the class [\\;,:"'] of esc
EscChars == {"\\", ";", ",", ":", "\"", "'"}

\* an esc that leaves the single quote alone
escChunk_NoQuote(c) ==
    CASE c \in (EscChars \ {"'"}) -> <<"\\", c>>
      [] c = "&amp;"   -> <<"&amp", "\\", ";">>
      [] c = "&gt;"    -> <<"&gt", "\\", ";">>
      [] OTHER         -> <<c>>

\* one match of s.replace(/([\\;,:"'])/g, '\\$1'); the entities the
\* sanitizer wrote end in a semicolon, which is matched as well
escChunk(c) ==
    CASE c \in EscChars -> <<"\\", c>>
      [] c = "&amp;"   -> <<"&amp", "\\", ";">>
      [] c = "&gt;"    -> <<"&gt", "\\", ";">>
      [] OTHER         -> <<c>>

\* esc(s)
esc(s) == Flatten([i \in 1..Len(s) |-> escChunk(s[i])])

\* a password field that is written whatever the encryption mode
wifiHasPassword_AnyMode(pass, enc) == pass # <<>>

\* if (pass && enc !== 'nopass')
wifiHasPassword(pass, enc) == pass # <<>> /\ Str(enc) # "nopass"

\* "TAG:" + esc(sanitizeInput(value)) + end when the raw value is truthy
OptField(tag, value, end) ==
    IF value # <<>> THEN <<tag>> \o esc(sanitizeInput(value)) \o end ELSE <<>>

\* the optional fields of the vcard case, in the order of the statements;
\* fs is a sequence of <<tag, raw value, end>>
RECURSIVE OptFields(_)
OptFields(fs) ==
    IF fs = <<>> THEN <<>>
    ELSE OptField(Head(fs)[1], Head(fs)[2], Head(fs)[3]) \o OptFields(Tail(fs))

\* the entries pushed to the fields array of the mecard case
MecardField(tag, value) ==
    IF value # <<>> THEN <<(<<tag>> \o esc(sanitizeInput(value)))>> ELSE <<>>

\* the fields array of the mecard case; fs is a sequence of <<tag, raw value>>
RECURSIVE MecardFields(_)
MecardFields(fs) ==
    IF fs = <<>> THEN <<>>
    ELSE MecardField(Head(fs)[1], Head(fs)[2]) \o MecardFields(Tail(fs))

\* getContent(): f holds the active template and the values of its fields
getContent(f) ==
    CASE f.template = "none" ->
           \* document.querySelector('.template-btn.active') is null and
           \* reading .dataset of it throws
           Throw("TypeError")
      [] f.template = "text" ->
           Ok(OrElse(sanitizeInput(f.text), <<"https://github.com">>))
      [] f.template = "bitcoin" ->
           LET address == sanitizeInput(f.btcAddress)
               amount  == sanitizeInput(f.btcAmount)
               label   == sanitizeInput(f.btcLabel)
               message == sanitizeInput(f.btcMessage)
               encL    == encodeURIComponent(label)
               encM    == encodeURIComponent(message)
               params  == (IF amount # <<>> THEN <<(<<"amount=">> \o amount)>> ELSE <<>>)
                          \o (IF label # <<>> THEN <<(<<"label=">> \o encL.val)>> ELSE <<>>)
                          \o (IF message # <<>> THEN <<(<<"message=">> \o encM.val)>> ELSE <<>>)
           IN  IF label # <<>> /\ ~encL.ok THEN encL
               ELSE IF message # <<>> /\ ~encM.ok THEN encM
               ELSE Ok(<<"bitcoin:">> \o address
                       \o (IF params # <<>> THEN <<"?">> \o JoinWith(params, "&") ELSE <<>>))
      [] f.template = "wifi" ->
           LET ssid == OrElse(sanitizeInput(f.wifiSsid), <<"WiFi">>)
               pass == sanitizeInput(f.wifiPassword)
               enc  == sanitizeInput(f.wifiEncryption)
           IN  Ok(<<"WIFI:T:">> \o enc \o <<";S:">> \o esc(ssid) \o <<";">>
                  \o (IF wifiHasPassword(pass, enc)
                      THEN <<"P:">> \o esc(pass) \o <<";">> ELSE <<>>)
                  \o (IF f.wifiHidden THEN <<"H:true;">> ELSE <<>>)
                  \o <<";">>)
      [] f.template = "vcard" ->
           LET n     == OrElse(sanitizeInput(f.vcardName), <<"John", " ", "Doe">>)
               parts == split(n, " ")
               last  == IF Len(parts) > 1 THEN parts[Len(parts)] ELSE <<>>
               rest  == IF Len(parts) > 1 THEN SubSeq(parts, 1, Len(parts) - 1) ELSE parts
               first == OrElse(JoinWith(rest, " "), n)
           IN  Ok(<<"BEGIN:VCARD\nVERSION:3.0\nN:">> \o esc(last) \o <<";">> \o esc(first)
                  \o <<";;;\nFN:">> \o esc(n) \o <<"\n">>
                  \o OptFields(<< <<"ORG:", f.vcardOrg, <<"\n">> >>,
                                 <<"TITLE:", f.vcardTitle, <<"\n">> >>,
                                 <<"TEL:", f.vcardPhone, <<"\n">> >>,
                                 <<"EMAIL:", f.vcardEmail, <<"\n">> >>,
                                 <<"URL:", f.vcardUrl, <<"\n">> >>,
                                 <<"ADR:;;", f.vcardAddress, <<";;;;\n">> >> >>)
                  \o <<"END:VCARD">>)
      [] f.template = "mecard" ->
           LET fields == MecardFields(<< <<"N:", f.mecardName>>,
                                         <<"TEL:", f.mecardPhone>>,
                                         <<"EMAIL:", f.mecardEmail>>,
                                         <<"URL:", f.mecardUrl>>,
                                         <<"ADR:", f.mecardAddress>>,
                                         <<"BDAY:", f.mecardBirthday>>,
                                         <<"NOTE:", f.mecardNote>> >>)
           IN  Ok(<<"MECARD:">> \o JoinWith(fields, ";") \o <<";">>)
      [] f.template = "geo" ->
           LET lat   == sanitizeInput(f.geoLatitude)
               lng   == sanitizeInput(f.geoLongitude)
               alt   == sanitizeInput(f.geoAltitude)
               query == sanitizeInput(f.geoQuery)
               encQ  == encodeURIComponent(query)
           IN  IF lat = <<>> \/ lng = <<>> THEN Ok(<<"geo:0,0">>)
               ELSE IF query # <<>> /\ ~encQ.ok THEN encQ
               ELSE Ok(<<"geo:">> \o lat \o <<",">> \o lng
                       \o (IF alt # <<>> THEN <<",">> \o alt ELSE <<>>)
                       \o (IF query # <<>> THEN <<"?q=">> \o encQ.val ELSE <<>>))
      [] f.template = "social" ->
           LET platform == sanitizeInput(f.socialPlatform)
               username == sanitizeInput(f.socialUsername)
               p        == Str(platform)
           IN  Ok(CASE p = "custom"    -> OrElse(username, <<"https://example.com">>)
                    [] p = "facebook"  -> <<"https://facebook.com/">> \o username
                    [] p = "twitter"   -> <<"https://twitter.com/">> \o username
                    [] p = "instagram" -> <<"https://instagram.com/">> \o username
                    [] p = "linkedin"  -> <<"https://linkedin.com/in/">> \o username
                    [] p = "youtube"   -> <<"https://youtube.com/@">> \o username
                    [] p = "tiktok"    -> <<"https://tiktok.com/@">> \o username
                    [] p = "github"    -> <<"https://github.com/">> \o username
                    [] OTHER -> <<"https://">> \o platform \o <<".com/">> \o username)
      [] f.template = "app" ->
           LET platform == sanitizeInput(f.appPlatform)
               appId    == sanitizeInput(f.appId)
               p        == Str(platform)
           IN  Ok(CASE p = "custom"  -> OrElse(appId, <<"https://example.com/app">>)
                    [] p = "ios"     -> <<"https://apps.apple.com/app/id">> \o appId
                    [] p = "android" ->
                         <<"https://play.google.com/store/apps/details?id=">> \o appId
                    [] p = "windows" -> <<"https://www.microsoft.com/store/apps/">> \o appId
                    [] p = "amazon"  -> <<"https://www.amazon.com/gp/product/">> \o appId
                    [] OTHER -> <<"https://store.">> \o platform \o <<".com/app/">> \o appId)
      [] f.template = "email" ->
           LET to   == OrElse(sanitizeInput(f.emailTo), <<"test@example.com">>)
               encS == encodeURIComponent(sanitizeInput(f.emailSubject))
               encB == encodeURIComponent(sanitizeInput(f.emailBody))
               p    == (IF f.emailSubject # <<>> THEN <<(<<"subject=">> \o encS.val)>> ELSE <<>>)
                       \o (IF f.emailBody # <<>> THEN <<(<<"body=">> \o encB.val)>> ELSE <<>>)
           IN  IF f.emailSubject # <<>> /\ ~encS.ok THEN encS
               ELSE IF f.emailBody # <<>> /\ ~encB.ok THEN encB
               ELSE Ok(<<"mailto:">> \o to
                       \o (IF p # <<>> THEN <<"?">> \o JoinWith(p, "&") ELSE <<>>))
      [] f.template = "sms" ->
           LET ph   == OrElse(sanitizeInput(f.smsPhone), <<"+1234567890">>)
               msg  == sanitizeInput(f.smsMessage)
               encM == encodeURIComponent(msg)
           IN  IF msg = <<>> THEN Ok(<<"sms:">> \o ph)
               ELSE IF ~encM.ok THEN encM
               ELSE Ok(<<"sms:">> \o ph \o <<"?body=">> \o encM.val)
      [] f.template = "phone" ->
           Ok(<<"tel:">> \o OrElse(sanitizeInput(f.phoneNumber), <<"+1234567890">>))
      [] OTHER -> Ok(<<"https://github.com">>)

\* ------------------------------------------------------------- cache key
JSONEscape(c) ==
    CASE c = "\"" -> <<"\\", "\"">>
      [] c = "\\" -> <<"\\", "\\">>
      [] OTHER    -> <<c>>

\* JSON.stringify of a string value
JSONString(s) ==
    <<"\"">> \o Flatten([i \in 1..Len(s) |-> JSONEscape(s[i])]) \o <<"\"">>

\* a config object that lacks the logoPercent field
stringifyConfig_NoLogoPercent(c, f, lg) ==
        IF ~c.ok THEN c
        ELSE Ok(<<"{\"content\":">> \o JSONString(c.val)
                \o <<",\"size\":">> \o JSONString(f.size)
                \o <<",\"fg\":">> \o JSONString(f.fg)
                \o <<",\"bg\":">> \o JSONString(f.bg)
                \o <<",\"ec\":">> \o JSONString(f.ec)
                \o <<",\"margin\":">> \o JSONString(f.margin)
                \o <<",\"style\":">> \o JSONString(f.style)
                \o <<",\"logo\":">>
                \o JSONString(IF lg # 0 THEN <<"present">> ELSE <<"absent">>)
                \o <<"}">>)

getConfigHash_NoLogoPercent(f, lg) == stringifyConfig_NoLogoPercent(getContent(f), f, lg)

\* JSON.stringify of the nine-field config object, in the order the object
\* literal lists them; c is what getContent() returned or threw, lg is
\* state.logo (0 is null)
stringifyConfig(c, f, lg) ==
        IF ~c.ok THEN c
        ELSE Ok(<<"{\"content\":">> \o JSONString(c.val)
                \o <<",\"size\":">> \o JSONString(f.size)
                \o <<",\"fg\":">> \o JSONString(f.fg)
                \o <<",\"bg\":">> \o JSONString(f.bg)
                \o <<",\"ec\":">> \o JSONString(f.ec)
                \o <<",\"margin\":">> \o JSONString(f.margin)
                \o <<",\"style\":">> \o JSONString(f.style)
                \o <<",\"logoPercent\":">> \o JSONString(f.logoPercent)
                \o <<",\"logo\":">>
                \o JSONString(IF lg # 0 THEN <<"present">> ELSE <<"absent">>)
                \o <<"}">>)

\* getConfigHash()
getConfigHash(f, lg) == stringifyConfig(getContent(f), f, lg)

\* -------------------------------------------------- QR matrix generator
\* Length in bytes of a chunk: a typed character is one byte, a literal
\* of the source has its own length, PastedText is a pasted text of 3000
\* bytes (more than any QR symbol holds)
PastedText == "<3000 bytes>"

ByteLen(c) ==
    CASE c = "https://github.com" -> 18
      [] c = "bitcoin:"           -> 8
      [] c = "label="             -> 6
      [] c = "message="           -> 8
      [] c = "amount="            -> 7
      [] c = "&amp;"              -> 5
      [] c = "&gt;"               -> 4
      [] c = PastedText           -> 3000
      [] OTHER                    -> IF c \in {"%20", "%22", "%23", "%25", "%26", "%2C",
                                               "%2F", "%3A", "%3B", "%3C", "%3D", "%3E",
                                               "%3F", "%5C"} THEN 3 ELSE 1

TextLen(s) == SeqSum([i \in 1..Len(s) |-> ByteLen(s[i])])

\* byte-mode capacity of the QR symbol versions 1..4 and of version 40,
\* per error-correction level
QrCapacity(ver, ec) ==
    CASE ver = 1  -> (CASE ec = <<"L">> -> 17 [] ec = <<"M">> -> 14 [] ec = <<"Q">> -> 11 [] OTHER -> 7)
      [] ver = 2  -> (CASE ec = <<"L">> -> 32 [] ec = <<"M">> -> 26 [] ec = <<"Q">> -> 20 [] OTHER -> 14)
      [] ver = 3  -> (CASE ec = <<"L">> -> 53 [] ec = <<"M">> -> 42 [] ec = <<"Q">> -> 32 [] OTHER -> 24)
      [] ver = 4  -> (CASE ec = <<"L">> -> 78 [] ec = <<"M">> -> 62 [] ec = <<"Q">> -> 46 [] OTHER -> 34)
      [] OTHER    -> (CASE ec = <<"L">> -> 2953 [] ec = <<"M">> -> 2331 [] ec = <<"Q">> -> 1663 [] OTHER -> 1273)

\* qrcode(0, ec); addData(content); make(); getModuleCount(): the smallest
\* version that holds the content (versions 5..39 are folded into 40), or
\* an exception when even version 40 is too small
qrModuleCount(content, ec) ==
    LET n == TextLen(content)
        fits == {v \in {1, 2, 3, 4, 40} : n <= QrCapacity(v, ec)}
        ver == CHOOSE v \in fits : \A w \in fits : v <= w
    IN  IF fits = {} THEN Throw("code length overflow")
        ELSE Ok(17 + 4 * ver)

\* ------------------------------------------------------------------ state
VARIABLES
    build,          \* which main.js runs: "iife" or "module"
    env,            \* what the user does in this run: "sweep" or "edit"
    form,           \* values of the DOM inputs the generator reads
    ecLocked,       \* module build: the options other than H are disabled
    logo,           \* state.logo: 0 (null) or the id of the loaded image
    uploads,        \* logo uploads whose reader/image load is still to come
    debounceTimer,  \* state.debounceTimer: 0 (null) or a timer id
    timers,         \* timers pending in the browser
    generating,     \* state.generating
    cache,          \* state.qrCache / state.cache, in insertion order
    canvas,         \* state.canvas: 0 (null) or a canvas id
    qrcodeDiv,      \* the canvas that is the child of #qrcode, 0 if none
    canvases,       \* the canvas elements that are still referenced
    status,         \* the message showStatus displayed last
    stack,          \* generate() executions in flight, innermost last
    hist,           \* observation of the run (not read by the program)
    pure,           \* inputs and result of the pure function under study
    link,           \* the anchor element and outcome of the last download()
    localStorage,   \* window.localStorage: the items of this origin
    theme,          \* the ThemeManager, the data-theme attribute, the system setting
    monitor,        \* the NetworkMonitor and the log it displays
    lifecycle,      \* state.isInitialized and the listeners of state.eventListeners
    boot            \* how far init() has come and what it has set up

vars == <<build, env, form, ecLocked, logo, uploads, debounceTimer, timers, generating,
          cache, canvas, qrcodeDiv, canvases, status, stack, hist, pure, link,
          localStorage, theme, monitor, lifecycle, boot>>

\* the state of the modules beside the generator
modules == <<localStorage, theme, monitor, lifecycle, boot>>

\* the state that generating a QR code does not touch
aside == <<link, modules>>

\* --------------------------------------------------------------- the form
\* the positions of the size slider the user moves between
SliderValues == {SliderMin + 50 * i : i \in 0..(NumSizes - 1)}

\* time advances in halves of the debounce delay
TickMs == DEBOUNCE_DELAY \div 2

EcLevels == {<<"L">>, <<"M">>, <<"Q">>, <<"H">>}

\* the values of the inputs when the page has loaded (the defaults the
\* code falls back to, and the ones clearAllSettings restores)
InitialForm(b) ==
    [template |-> "text", text |-> <<>>,
     btcAddress |-> <<>>, btcAmount |-> <<>>, btcLabel |-> <<>>, btcMessage |-> <<>>,
     wifiSsid |-> <<>>, wifiPassword |-> <<>>, wifiEncryption |-> <<"WPA">>,
     wifiHidden |-> FALSE,
     vcardName |-> <<>>, vcardOrg |-> <<>>, vcardTitle |-> <<>>, vcardPhone |-> <<>>,
     vcardEmail |-> <<>>, vcardUrl |-> <<>>, vcardAddress |-> <<>>,
     mecardName |-> <<>>, mecardPhone |-> <<>>, mecardEmail |-> <<>>, mecardUrl |-> <<>>,
     mecardAddress |-> <<>>, mecardBirthday |-> <<>>, mecardNote |-> <<>>,
     geoLatitude |-> <<>>, geoLongitude |-> <<>>, geoAltitude |-> <<>>, geoQuery |-> <<>>,
     socialPlatform |-> <<"facebook">>, socialUsername |-> <<>>,
     appPlatform |-> <<"ios">>, appId |-> <<>>,
     emailTo |-> <<>>, emailSubject |-> <<>>, emailBody |-> <<>>,
     smsPhone |-> <<>>, smsMessage |-> <<>>, phoneNumber |-> <<>>,
     size |-> IF b = "iife" THEN <<"4", "0", "0">> ELSE <<"3", "5", "0">>,
     fg |-> <<"#000000">>, bg |-> <<"#ffffff">>, ec |-> <<"M">>,
     margin |-> <<"2">>, style |-> <<"square">>, logoPercent |-> <<"20">>]

Status(msg, type) == [msg |-> msg, type |-> type]

\* ------------------------------------------------------------ render cache
CacheKeys(c) == [i \in 1..Len(c) |-> c[i].key]

CacheHas(c, k) == \E i \in 1..Len(c) : c[i].key = k

CacheGet(c, k) == c[CHOOSE i \in 1..Len(c) : c[i].key = k].cvs

\* Map.prototype.set: an existing key keeps its place, a new key goes last
CacheSet(c, k, v) ==
    IF CacheHas(c, k)
    THEN [i \in 1..Len(c) |-> IF c[i].key = k THEN [key |-> k, cvs |-> v] ELSE c[i]]
    ELSE Append(c, [key |-> k, cvs |-> v])

\* canvas.width = canvas.height = 0: the backing store is released
Release(cs, id) ==
    IF id \in DOMAIN cs THEN [cs EXCEPT ![id] = [@ EXCEPT !.width = 0]] ELSE cs

\* the canvases something still refers to; the others are garbage
Referenced(c, cv, child) == ({c[i].cvs : i \in 1..Len(c)} \cup {cv, child}) \ {0}

Collect(cs, c, cv, child) ==
    [id \in (DOMAIN cs) \cap Referenced(c, cv, child) |-> cs[id]]

NewCanvasId(cs) == CHOOSE id \in 1..(Cardinality(DOMAIN cs) + 1) : id \notin DOMAIN cs

\* cacheStore without the size limit
cacheStore_NoEvict(b, c, cs, k, id) ==
    [cache |-> CacheSet(c, k, id), canvases |-> cs, evicted |-> <<>>]

\* cacheStore dropping the second-oldest entry instead of the oldest
cacheStore_EvictSecond(b, c, cs, k, id) ==
    LET c1 == CacheSet(c, k, id)
    IN  IF Len(c1) > MAX_CACHE_SIZE
        THEN [cache |-> <<Head(c1)>> \o Tail(Tail(c1)),
              canvases |-> IF b = "iife" THEN Release(cs, c1[2].cvs) ELSE cs,
              evicted |-> c1[2].key]
        ELSE [cache |-> c1, canvases |-> cs, evicted |-> <<>>]

\* cacheStore dropping the entry it has just inserted
cacheStore_EvictNewest(b, c, cs, k, id) ==
    LET c1 == CacheSet(c, k, id)
    IN  IF Len(c1) > MAX_CACHE_SIZE
        THEN [cache |-> SubSeq(c1, 1, Len(c1) - 1),
              canvases |-> IF b = "iife" THEN Release(cs, c1[Len(c1)].cvs) ELSE cs,
              evicted |-> c1[Len(c1)].key]
        ELSE [cache |-> c1, canvases |-> cs, evicted |-> <<>>]

\* "Cache the result" and "Limit cache size": set, then drop the first key
\* when the size exceeds MAX_CACHE_SIZE; the iife build releases the
\* dropped canvas first, the module build only deletes the entry
cacheStore(b, c, cs, k, id) ==
    LET c1 == CacheSet(c, k, id)
    IN  IF Len(c1) > MAX_CACHE_SIZE
        THEN [cache |-> Tail(c1),
              canvases |-> IF b = "iife" THEN Release(cs, Head(c1).cvs) ELSE cs,
              evicted |-> Head(c1).key]
        ELSE [cache |-> c1, canvases |-> cs, evicted |-> <<>>]

\* displayQRCode(qrCanvas): empty #qrcode, append the canvas, remember it.
\* The iife build sets the width and height of every canvas child to 0
\* before removing it; the module build only drops the children.
displayQRCode(b, qrCanvas, cs, child) ==
    [canvases |-> IF b = "iife" /\ child # 0 THEN Release(cs, child) ELSE cs,
     qrcodeDiv |-> qrCanvas,
     canvas |-> qrCanvas]

\* ---------------------------------------------------------------- timers
TimerIds(ts) == {t.id : t \in ts}

NewTimerId(ts) == CHOOSE id \in 1..(Cardinality(ts) + 1) : id \notin TimerIds(ts)

\* clearTimeout(id)
clearTimeout(ts, id) == {t \in ts : t.id # id}

\* debouncedGenerate without the clearTimeout
debouncedGenerate_NoClear(ts, dt) ==
    LET id == NewTimerId(ts)
    IN  [timers |-> ts \cup {[id |-> id, kind |-> "debounce", remaining |-> DEBOUNCE_DELAY]},
         debounceTimer |-> id]

\* debouncedGenerate(): cancel the timer state.debounceTimer names, if any,
\* and start a new one of DEBOUNCE_DELAY
debouncedGenerate(ts, dt) ==
    LET kept == IF dt # 0 THEN clearTimeout(ts, dt) ELSE ts
        id == NewTimerId(kept)
    IN  [timers |-> kept \cup {[id |-> id, kind |-> "debounce", remaining |-> DEBOUNCE_DELAY]},
         debounceTimer |-> id]

\* generate() without its guard
generateGuard_Off(g) == FALSE

\* if (state.generating) return;
generateGuard(g) == g

InitialHist ==
    [elapsed |-> 0,        \* ms since the last triggering event (capped)
     triggered |-> FALSE,  \* a triggering event has happened
     calls |-> 0,          \* generate() calls by debounce timers since then
     burst |-> 0,          \* triggering events in the current burst (capped)
     hitSeen |-> FALSE,    \* a cache hit was served since the cache was last empty
     trigKey |-> Ok(<<>>), \* the config key as of the last triggering event
     outcome |-> "none",   \* how the last generate() call ended
     fifo |-> <<>>,        \* the last MAX_CACHE_SIZE keys inserted since a clear
     evicted |-> <<>>,     \* the key the last insertion evicted, if any
     evictedWidth |-> -1,  \* the width of the evicted canvas when its entry was deleted
     picked |-> 0,         \* the file picked last in #logo-upload, 0 once its value is ''
     logoEcWas |-> <<>>,   \* the error-correction level when the last logo loaded
     extras |-> 0]         \* events so far that count against MaxExtras

\* before the first download() there is no anchor
NoLink == [fmt |-> "", fill |-> <<>>, href |-> Ok([type |-> ""])]

\* localStorage.getItem gives null for an item that was never set
NoItems == [theme |-> "null", visited |-> "null"]

\* the two files that define ThemeManager
ThemeFiles == {"js/modules/theme-manager.js", "part_001"}

\* applyTheme(theme): data-theme is "dark" or is removed
applyTheme(t) == IF t = "dark" THEN "dark" ELSE "light"

\* ThemeManager.init() up to the listeners: the saved theme or the
\* system preference is applied
ThemeInit(file, saved, systemPrefersDark) ==
    [file |-> file,
     applied |-> applyTheme(IF saved # "null" THEN saved
                            ELSE IF systemPrefersDark THEN "dark" ELSE "light"),
     isToggling |-> FALSE,
     systemDark |-> systemPrefersDark,
     clicks |-> 0]

\* the two files that define NetworkMonitor
MonitorFiles == {"js/modules/network-monitor.js", "part_000"}

\* if (entries.length > 10)
LOG_LIMIT == 10

\* the constructor: no request counted, nothing in the log, no warning
NewMonitor(file) ==
    [file |-> file,
     log |-> <<>>,               \* the .network-entry children of #network-log, first child first
     totalRequests |-> 0,
     outboundCount |-> 0,
     className |-> "no-outbound",  \* of #outbound-status
     observing |-> TRUE,         \* the PerformanceObserver is connected
     added |-> 0,                \* addEntry calls so far (observation)
     calls |-> 0,                \* calls of the intercepted APIs so far (observation)
     last |-> [api |-> "none", method |-> "", thrown |-> ""]]  \* the call made last

\* after init(): the handlers registered with addTrackedEventListener are
\* attached to their elements; the module build has no isInitialized
Running(b) ==
    [isInitialized |-> b = "iife",
     eventListeners |-> "attached",
     cleaned |-> FALSE]          \* cleanup() has run (observation)

\* the calls of init() that set up the core, in the order of the try block
CoreSteps(b) ==
    <<"setupColor fg", "setupColor bg", "setupRangeSliders", "setupLogoUpload",
      "setupEventListeners">>
    \o (IF b = "iife" THEN <<"setupProgressiveDisclosure", "showUserGuidance">>
        ELSE <<"bootstrap.Tooltip", "updateCharCount">>)

Range(q) == {q[i] : i \in 1 .. Len(q)}

\* init() has run through its try block
Booted(b) ==
    [phase |-> "done",
     pc |-> 0,
     failAt |-> "none",                           \* the call of the try block that throws
     again |-> FALSE,                             \* and throws in the catch block too
     count |-> [c \in Range(CoreSteps(b)) |-> 1],  \* how often each core call has run
     scheduled |-> 1]                             \* setTimeout(() => generate(), ...) calls

InitAside ==
    /\ link = NoLink
    /\ localStorage = NoItems
    /\ theme = ThemeInit("js/modules/theme-manager.js", "null", FALSE)
    /\ monitor = NewMonitor("js/modules/network-monitor.js")
    /\ lifecycle = Running(build)
    /\ boot = Booted(build)

Init ==
    /\ build \in Builds
    /\ env \in {"sweep", "edit"}
    /\ form = InitialForm(build)
    /\ ecLocked = FALSE
    /\ logo = 0
    /\ uploads = {}
    /\ debounceTimer = 0
    /\ timers = {[id |-> 1, kind |-> "initial", remaining |-> INITIAL_GENERATION_DELAY]}
    /\ generating = FALSE
    /\ cache = <<>>
    /\ canvas = 0
    /\ qrcodeDiv = 0
    /\ canvases = <<>>
    /\ status = Status(IF build = "iife" THEN "Application loaded successfully" ELSE "Ready",
                       "success")
    /\ stack = <<>>
    /\ hist = InitialHist
    /\ InitAside
    /\ pure = [op |-> "none"]

\* ------------------------------------------------------------ generate()
AtTopLevel == stack = <<>>

Reentered == stack # <<>> /\ Len(stack) < MaxNesting

\* The runs are of two kinds.  In a "sweep" run the user drags the size
\* slider upward through all its positions, one position per generation; a
\* backward move, a move while a debounce timer is pending, a logo action,
\* clear-all and a failing getContext count against MaxExtras.  In an "edit"
\* run the slider stays where it started and the user edits the other
\* fields; every event counts against MaxExtras + 1.
Budget == IF env = "sweep" THEN MaxExtras ELSE MaxExtras + 1

\* the handlers of state.eventListeners run while they are attached
Listening == lifecycle.eventListeners = "attached"

CanEdit == AtTopLevel /\ hist.extras < Budget /\ Listening

CanType == CanEdit /\ env = "edit"

Edited(h) == [h EXCEPT !.extras = @ + 1]

SliderReach ==
    IF env = "sweep" THEN SliderValues
    ELSE {v \in SliderValues : v = parseInt(InitialForm(build).size)}

DebouncePending == \E t \in timers : t.kind = "debounce"

Top == stack[Len(stack)]

Pop == SubSeq(stack, 1, Len(stack) - 1)

LastN(q, n) == IF Len(q) > n THEN SubSeq(q, Len(q) - n + 1, Len(q)) ELSE q

\* the bookkeeping of a triggering event that leaves the form f and logo lg
Trig(h, f, lg) ==
    [h EXCEPT !.elapsed = 0, !.triggered = TRUE, !.calls = 0,
              !.burst = IF DebouncePending THEN Min(@ + 1, 2) ELSE 1,
              !.trigKey = getConfigHash(f, lg)]

Called(h, caller, how) ==
    [h EXCEPT !.outcome = how,
              !.hitSeen = @ \/ how = "hit",
              !.calls = IF caller = "debounce" THEN Min(@ + 1, 3) ELSE @]

\* generate() up to the try block, entered from a timer callback that leaves
\* the pending timers ts and state.debounceTimer dt.  The module build's
\* debounce callback assigns state.debounceTimer = null after generate()
\* returns; when generate() throws, that assignment is skipped.
generateWith(h, caller, ts, dt) ==
    LET dtRet == IF caller = "debounce" /\ build = "module" THEN 0 ELSE dt
    IN  /\ timers' = ts
        /\ UNCHANGED <<build, env, form, ecLocked, logo, uploads, pure, aside>>
        /\ IF generateGuard(generating)
           THEN /\ debounceTimer' = dtRet
                /\ hist' = Called(hist, caller, "guarded")
                /\ UNCHANGED <<generating, cache, canvas, qrcodeDiv, canvases, status, stack>>
           ELSE IF ~h.ok
           THEN \* getConfigHash() is outside the try block: the exception
                \* leaves generate() and the timer callback
                /\ debounceTimer' = dt
                /\ hist' = Called(hist, caller, "uncaught")
                /\ UNCHANGED <<generating, cache, canvas, qrcodeDiv, canvases, status, stack>>
           ELSE IF CacheHas(cache, h.val)
           THEN LET d == displayQRCode(build, CacheGet(cache, h.val), canvases, qrcodeDiv)
                IN  /\ canvases' = Collect(d.canvases, cache, d.canvas, d.qrcodeDiv)
                    /\ qrcodeDiv' = d.qrcodeDiv
                    /\ canvas' = d.canvas
                    /\ status' = Status("Ready (cached)", "success")
                    /\ debounceTimer' = dtRet
                    /\ hist' = Called(hist, caller, "hit")
                    /\ UNCHANGED <<generating, cache, stack>>
           ELSE /\ generating' = TRUE
                /\ stack' = Append(stack, [pc |-> "try", key |-> h.val, caller |-> caller])
                /\ debounceTimer' = dt
                /\ hist' = Called(hist, caller, "miss")
                /\ UNCHANGED <<cache, canvas, qrcodeDiv, canvases, status>>

\* generate(): h is what const configHash = getConfigHash() gave
generate(caller, ts, dt) == generateWith(getConfigHash(form, logo), caller, ts, dt)

\* a cell size rounded up instead of down
cellSize_Ceil(size, count, margin) ==
    (size + count + margin * 2 - 1) \div (count + margin * 2)

\* const cell = Math.floor(size / (count + margin * 2))
cellSize(size, count, margin) == size \div (count + margin * 2)

\* const actual = cell * (count + margin * 2)
actualSize(size, count, margin) == cellSize(size, count, margin) * (count + margin * 2)

\* what the try block does when nothing throws: render, cache, display
renderAndStore(b, k, c, cs, child, lg, actual, bg) ==
    LET id == NewCanvasId(cs)
        cs1 == [i \in (DOMAIN cs) \cup {id} |->
                   IF i = id THEN [width |-> actual, key |-> k, logo |-> lg, bg |-> bg]
                   ELSE cs[i]]
        st == cacheStore(b, c, cs1, k, id)
        d == displayQRCode(b, id, st.canvases, child)
        c1 == CacheSet(c, k, id)
        gone == {i \in 1..Len(c1) : ~CacheHas(st.cache, c1[i].key)}
    IN  [cache |-> st.cache, evicted |-> st.evicted, cvs |-> id,
         evictedWidth |-> IF gone = {} THEN -1
                          ELSE st.canvases[c1[CHOOSE i \in gone : TRUE].cvs].width,
         canvases |-> Collect(d.canvases, st.cache, d.canvas, d.qrcodeDiv),
         qrcodeDiv |-> d.qrcodeDiv, canvas |-> d.canvas]

\* the exception the try block ends with, or "" when it runs through;
\* ctxOk: whether canvas.getContext('2d') returned a context
tryThrown(content, b, f, ctxOk) ==
    LET qr == qrModuleCount(content.val, f.ec)
    IN  IF ~content.ok THEN content.err
        ELSE IF ~qr.ok THEN qr.err
        ELSE IF ~ctxOk
             THEN IF b = "iife" THEN "Failed to get canvas context"
                  ELSE "Cannot set properties of null (setting 'fillStyle')"
        ELSE ""

tryFailure(b, f, ctxOk) == tryThrown(getContent(f), b, f, ctxOk)

\* a try block that caches and displays the canvas before it asks for the
\* drawing context
tryBlockWith_StoreFirst(content, b, f, ctxOk, k, c, cs, child, cv, lg) ==
    LET qr == qrModuleCount(content.val, f.ec)
        size == parseInt(f.size)
        margin == parseInt(f.margin)
        actual == actualSize(size, qr.val, margin)
        r == renderAndStore(b, k, c, cs, child, lg, actual, f.bg)
    IN  IF ~content.ok \/ ~qr.ok
        THEN [err |-> tryThrown(content, b, f, ctxOk), cache |-> c, canvases |-> cs,
              qrcodeDiv |-> child, canvas |-> cv, evicted |-> <<>>,
              evictedWidth |-> -1]
        ELSE [err |-> tryThrown(content, b, f, ctxOk), cache |-> r.cache,
              canvases |-> r.canvases,
              qrcodeDiv |-> r.qrcodeDiv, canvas |-> r.canvas, evicted |-> r.evicted,
              evictedWidth |-> r.evictedWidth]

tryBlock_StoreFirst(b, f, ctxOk, k, c, cs, child, cv, lg) ==
    tryBlockWith_StoreFirst(getContent(f), b, f, ctxOk, k, c, cs, child, cv, lg)

\* the try block up to the catch clause, content being what
\* const content = getContent() gave: what it leaves in the cache, the
\* canvases and the display, and the exception it ended with ("" if none)
tryBlockWith(content, b, f, ctxOk, k, c, cs, child, cv, lg) ==
    LET err == tryThrown(content, b, f, ctxOk)
        count == qrModuleCount(content.val, f.ec).val
        size == parseInt(f.size)
        margin == parseInt(f.margin)
        actual == actualSize(size, count, margin)
        r == renderAndStore(b, k, c, cs, child, lg, actual, f.bg)
    IN  IF err # ""
        THEN [err |-> err, cache |-> c, canvases |-> cs, qrcodeDiv |-> child,
              canvas |-> cv, evicted |-> <<>>, evictedWidth |-> -1]
        ELSE [err |-> "", cache |-> r.cache, canvases |-> r.canvases,
              qrcodeDiv |-> r.qrcodeDiv, canvas |-> r.canvas, evicted |-> r.evicted,
              evictedWidth |-> r.evictedWidth]

\* the try block of generate()
tryBlock(b, f, ctxOk, k, c, cs, child, cv, lg) ==
    tryBlockWith(getContent(f), b, f, ctxOk, k, c, cs, child, cv, lg)

\* the try block and its catch clause
GenTry ==
    /\ stack # <<>>
    /\ Top.pc = "try"
    /\ \E ctxOk \in BOOLEAN :
         /\ ~ctxOk => hist.extras < Budget
         /\ LET r == tryBlock(build, form, ctxOk, Top.key, cache, canvases, qrcodeDiv,
                              canvas, logo)
                h == IF ctxOk THEN hist ELSE Edited(hist)
            IN  /\ cache' = r.cache
                /\ canvases' = r.canvases
                /\ qrcodeDiv' = r.qrcodeDiv
                /\ canvas' = r.canvas
                /\ IF r.err # ""
                   THEN /\ status' = Status(r.err, "error")
                        /\ hist' = [h EXCEPT !.outcome = "caught"]
                   ELSE /\ status' = Status("Ready", "success")
                        /\ hist' = [h EXCEPT !.outcome = "ok",
                                             !.fifo = LastN(Append(@, Top.key), MAX_CACHE_SIZE),
                                             !.evicted = r.evicted,
                                             !.evictedWidth = r.evictedWidth]
    /\ stack' = Append(Pop, [Top EXCEPT !.pc = "finally"])
    /\ UNCHANGED <<build, env, form, ecLocked, logo, uploads, debounceTimer, timers, generating, pure, aside>>

\* a generate() that does not reset the flag
finallyGenerating_Keep(g) == g

\* the value of state.generating after the finally clause
finallyGenerating(g) == FALSE

\* the finally clause, and the return into the timer callback
GenFinally ==
    /\ stack # <<>>
    /\ Top.pc = "finally"
    /\ generating' = finallyGenerating(generating)
    /\ stack' = Pop
    /\ debounceTimer' = IF Top.caller = "debounce" /\ build = "module" THEN 0 ELSE debounceTimer
    /\ UNCHANGED <<build, env, form, ecLocked, logo, uploads, timers, cache, canvas, qrcodeDiv,
                   canvases, status, hist, pure, aside>>

\* -------------------------------------------------------- timer callbacks
\* the callback of the debounce timer
DebounceCallback ==
    \E t \in timers :
      /\ t.kind = "debounce"
      /\ t.remaining = 0
      /\ IF build = "iife"
         THEN generate("debounce", timers \ {t}, 0)
         ELSE IF ~generating
              THEN generate("debounce", timers \ {t}, debounceTimer)
              ELSE /\ timers' = timers \ {t}
                   /\ debounceTimer' = 0
                   /\ UNCHANGED <<build, env, form, ecLocked, logo, uploads, generating, cache,
                                  canvas, qrcodeDiv, canvases, status, stack, hist, pure, aside>>

\* setTimeout(() => generate(), INITIAL_GENERATION_DELAY) of init()
InitialCallback ==
    \E t \in timers :
      /\ t.kind = "initial"
      /\ t.remaining = 0
      /\ generate("initial", timers \ {t}, debounceTimer)

DebounceFire ==
    /\ AtTopLevel
    /\ DebounceCallback

InitialFire ==
    /\ AtTopLevel
    /\ InitialCallback

\* time passes, up to the next timer that is due
Tick ==
    /\ AtTopLevel
    /\ timers # {}
    /\ \A t \in timers : t.remaining > 0
    /\ LET d == CHOOSE x \in {TickMs} \cup {t.remaining : t \in timers} :
                    \A y \in {TickMs} \cup {t.remaining : t \in timers} : x <= y
       IN  /\ timers' = {[t EXCEPT !.remaining = @ - d] : t \in timers}
           /\ hist' = [hist EXCEPT !.elapsed = Min(@ + d, DEBOUNCE_DELAY + TickMs)]
    /\ UNCHANGED <<build, env, form, ecLocked, logo, uploads, debounceTimer, generating, cache,
                   canvas, qrcodeDiv, canvases, status, stack, pure, aside>>

\* ------------------------------------------------------------ user events
TextValues == {<<>>, <<"a">>, <<PastedText>>}

LabelValues == {<<>>, <<LoneSurrogate>>}

Templates == {"text", "bitcoin"}

MAX_FILE_SIZE == 5 * 1024 * 1024

\* the message the change handler of #logo-upload rejects a file with, or
\* "" when it goes on to read the file
logoFileError_AtLimit(b, file) ==
    IF Head(file.type) # "image/" THEN "Please upload an image"
    ELSE IF file.size >= MAX_FILE_SIZE
         THEN IF b = "iife" THEN "Image file too large (max 5MB)"
              ELSE "Image too large (max 5MB)"
    ELSE ""

logoFileError(b, file) ==
    IF Head(file.type) # "image/" THEN "Please upload an image"
    ELSE IF file.size > MAX_FILE_SIZE
         THEN IF b = "iife" THEN "Image file too large (max 5MB)"
              ELSE "Image too large (max 5MB)"
    ELSE ""

\* an error-correction select left as it was by the load handler
logoEcLevel_Keep(ec) == ec

\* errorCorrection.value = 'H': the level after a logo has loaded
logoEcLevel(ec) == <<"H">>

\* the files the user can pick as a logo
Files ==
    {[img |-> 1, type |-> <<"image/", "png">>, size |-> 1024],
     [img |-> 2, type |-> <<"image/", "jpeg">>, size |-> MAX_FILE_SIZE],
     [img |-> 3, type |-> <<"text/", "plain">>, size |-> 1024],
     [img |-> 4, type |-> <<"image/", "png">>, size |-> MAX_FILE_SIZE + 1]}

\* an input or change event of a .qr-input element: the handler calls
\* debouncedGenerate() after the element took its new value
InputEvent(f) ==
    LET dg == debouncedGenerate(timers, debounceTimer)
    IN  /\ form' = f
        /\ timers' = dg.timers
        /\ debounceTimer' = dg.debounceTimer
        /\ UNCHANGED <<build, env, ecLocked, logo, uploads, generating, cache, canvas, qrcodeDiv,
                       canvases, status, stack, pure, aside>>

SliderMove ==
    /\ AtTopLevel
    /\ \E v \in SliderReach :
         /\ v - parseInt(form.size) \in {50, 0 - 50}
         /\ InputEvent([form EXCEPT !.size = NatToText(v)])
         /\ IF v < parseInt(form.size) \/ DebouncePending
            THEN /\ hist.extras < Budget
                 /\ hist' = Edited(Trig(hist, form', logo))
            ELSE hist' = Trig(hist, form', logo)

SetText ==
    /\ CanType
    /\ form.template = "text"
    /\ \E v \in TextValues \ {form.text} :
         /\ InputEvent([form EXCEPT !.text = v])
         /\ hist' = Edited(Trig(hist, form', logo))

SetLabel ==
    /\ CanType
    /\ form.template = "bitcoin"
    /\ \E v \in LabelValues \ {form.btcLabel} :
         /\ InputEvent([form EXCEPT !.btcLabel = v])
         /\ hist' = Edited(Trig(hist, form', logo))

\* setActiveTemplate(btn)
SetTemplate ==
    /\ CanType
    /\ \E t \in Templates \ {form.template} :
         /\ InputEvent([form EXCEPT !.template = t])
         /\ hist' = Edited(Trig(hist, form', logo))

\* the user picks another error-correction level; a disabled option
\* cannot be picked
SetEc ==
    /\ CanType
    /\ \E e \in EcLevels \ {form.ec} :
         /\ ecLocked => e = <<"H">>
         /\ InputEvent([form EXCEPT !.ec = e])
         /\ hist' = Edited(Trig(hist, form', logo))

\* the colours the background picker is moved between
BgColors == {<<"#ffffff">>, <<"#ff0000">>}

\* the input handler of #bg-color (setupColor)
SetBg ==
    /\ CanType
    /\ \E colour \in BgColors \ {form.bg} :
         /\ InputEvent([form EXCEPT !.bg = colour])
         /\ hist' = Edited(Trig(hist, form', logo))

\* the change handler of #logo-upload
LogoChange ==
    /\ CanEdit
    /\ \E file \in Files :
         /\ env = "sweep" => file.img = 1
         /\ IF logoFileError(build, file) # ""
            THEN /\ status' = Status(logoFileError(build, file), "error")
                 /\ UNCHANGED uploads
            ELSE /\ uploads' = uploads \cup {[img |-> file.img, stage |-> "read"]}
                 /\ UNCHANGED status
         /\ hist' = [Edited(hist) EXCEPT !.picked = file.img]
    /\ UNCHANGED <<build, env, form, ecLocked, logo, debounceTimer, timers, generating, cache,
                   canvas, qrcodeDiv, canvases, stack, pure, aside>>

\* the load event of the FileReader: the image starts decoding
ReaderLoad ==
    /\ AtTopLevel
    /\ Listening
    /\ \E u \in uploads :
         /\ u.stage = "read"
         /\ uploads' = (uploads \ {u}) \cup {[u EXCEPT !.stage = "decode"]}
    /\ UNCHANGED <<build, env, form, ecLocked, logo, debounceTimer, timers, generating, cache,
                   canvas, qrcodeDiv, canvases, status, stack, hist, pure, aside>>

\* the load event of the Image: the logo is set
ImgLoad ==
    /\ AtTopLevel
    /\ Listening
    /\ \E u \in uploads :
         /\ u.stage = "decode"
         /\ uploads' = uploads \ {u}
         /\ logo' = u.img
         /\ form' = [form EXCEPT !.ec = logoEcLevel(form.ec)]
         /\ LET dg == debouncedGenerate(timers, debounceTimer)
            IN  /\ timers' = dg.timers
                /\ debounceTimer' = dg.debounceTimer
         /\ IF build = "module"
            THEN /\ ecLocked' = TRUE
                 /\ cache' = <<>>
                 /\ canvases' = Collect(canvases, <<>>, canvas, qrcodeDiv)
                 /\ hist' = [Trig(hist, form', logo') EXCEPT !.fifo = <<>>, !.hitSeen = FALSE,
                                                            !.logoEcWas = form.ec]
            ELSE /\ hist' = [Trig(hist, form', logo') EXCEPT !.logoEcWas = form.ec]
                 /\ UNCHANGED <<ecLocked, cache, canvases>>
    /\ UNCHANGED <<build, env, generating, canvas, qrcodeDiv, status, stack, pure, aside>>

\* the click handler of #clear-logo
ClearLogo ==
    /\ CanEdit
    /\ logo # 0 \/ uploads # {}
    /\ logo' = 0
    /\ ecLocked' = FALSE
    /\ LET dg == debouncedGenerate(timers, debounceTimer)
       IN  /\ timers' = dg.timers
           /\ debounceTimer' = dg.debounceTimer
    /\ hist' = [Edited(Trig(hist, form, logo')) EXCEPT !.picked = 0]
    /\ UNCHANGED <<build, env, form, uploads, generating, cache, canvas, qrcodeDiv, canvases,
                   status, stack, pure, aside>>

\* clearAllSettings(): "Clear content based on current template"
clearTemplate(f) ==
    CASE f.template = "text"    -> [f EXCEPT !.text = <<>>]
      [] f.template = "wifi"    -> [f EXCEPT !.wifiSsid = <<>>, !.wifiPassword = <<>>,
                                             !.wifiEncryption = <<"WPA">>,
                                             !.wifiHidden = FALSE]
      [] f.template = "vcard"   -> [f EXCEPT !.vcardName = <<>>, !.vcardOrg = <<>>,
                                             !.vcardTitle = <<>>, !.vcardPhone = <<>>,
                                             !.vcardEmail = <<>>, !.vcardUrl = <<>>,
                                             !.vcardAddress = <<>>]
      [] f.template = "mecard"  -> [f EXCEPT !.mecardName = <<>>, !.mecardPhone = <<>>,
                                             !.mecardEmail = <<>>, !.mecardUrl = <<>>,
                                             !.mecardAddress = <<>>, !.mecardBirthday = <<>>,
                                             !.mecardNote = <<>>]
      [] f.template = "email"   -> [f EXCEPT !.emailTo = <<>>, !.emailSubject = <<>>,
                                             !.emailBody = <<>>]
      [] f.template = "sms"     -> [f EXCEPT !.smsPhone = <<>>, !.smsMessage = <<>>]
      [] f.template = "phone"   -> [f EXCEPT !.phoneNumber = <<>>]
      [] f.template = "bitcoin" -> [f EXCEPT !.btcAddress = <<>>, !.btcAmount = <<>>,
                                             !.btcLabel = <<>>, !.btcMessage = <<>>]
      [] f.template = "geo"     -> [f EXCEPT !.geoLatitude = <<>>, !.geoLongitude = <<>>,
                                             !.geoAltitude = <<>>, !.geoQuery = <<>>]
      [] f.template = "social"  -> [f EXCEPT !.socialPlatform = <<"facebook">>,
                                             !.socialUsername = <<>>]
      [] f.template = "app"     -> [f EXCEPT !.appPlatform = <<"ios">>, !.appId = <<>>]
      [] OTHER                  -> f

\* a reset of the design settings that leaves the error-correction level
resetDesign_KeepEc(f) ==
    [f EXCEPT !.size = <<"3", "5", "0">>, !.margin = <<"2">>, !.fg = <<"#000000">>,
              !.bg = <<"#ffffff">>, !.style = <<"square">>, !.logoPercent = <<"20">>]

\* clearAllSettings(): "Reset design settings"
resetDesign(f) ==
    [f EXCEPT !.size = <<"3", "5", "0">>, !.margin = <<"2">>, !.fg = <<"#000000">>,
              !.bg = <<"#ffffff">>, !.style = <<"square">>, !.ec = <<"M">>,
              !.logoPercent = <<"20">>]

\* clearAllSettings() (module build only)
ClearAll ==
    /\ CanEdit
    /\ build = "module"
    /\ form' = resetDesign(clearTemplate(form))
    /\ logo' = 0
    /\ ecLocked' = FALSE
    /\ cache' = <<>>
    /\ canvases' = Collect(canvases, <<>>, canvas, qrcodeDiv)
    /\ LET dg == debouncedGenerate(timers, debounceTimer)
       IN  /\ timers' = dg.timers
           /\ debounceTimer' = dg.debounceTimer
    /\ status' = Status("Settings cleared", "success")
    /\ hist' = [Edited(Trig(hist, form', logo')) EXCEPT !.fifo = <<>>, !.hitSeen = FALSE,
                                                         !.picked = 0]
    /\ UNCHANGED <<build, env, uploads, generating, canvas, qrcodeDiv, stack, pure, aside>>

\* ---------------------------------------------------- the specifications
Next ==
    \/ SliderMove
    \/ SetText
    \/ SetLabel
    \/ SetTemplate
    \/ SetEc
    \/ LogoChange
    \/ ReaderLoad
    \/ ImgLoad
    \/ ClearLogo
    \/ ClearAll
    \/ Tick
    \/ DebounceFire
    \/ InitialFire
    \/ GenTry
    \/ GenFinally

Spec == Init /\ [][Next]_vars

\* ------------------------------------------------------------ downloads
\* A drawing surface is known by its side and by the colour of the pixels
\* outside the QR pattern ("transparent" while nothing was painted there).
\* ctx.fillRect(0, 0, width, height) with fillStyle colour
fillRect(surface, colour) == [surface EXCEPT !.bg = colour]

\* ctx.drawImage(src, 0, 0), source-over: an opaque pixel of the source
\* replaces the pixel under it; a canvas without pixels is refused
drawImage(surface, src) ==
    IF src.width = 0 THEN Throw("InvalidStateError")
    ELSE Ok(IF src.bg = "transparent" THEN surface ELSE [surface EXCEPT !.bg = src.bg])

\* canvas.toDataURL(type): a canvas without pixels gives "data:,"; JPEG has
\* no alpha channel
toDataURL(surface, type) ==
    IF surface.width = 0 THEN [type |-> "data:,"]
    ELSE [type |-> type, width |-> surface.width, bg |-> surface.bg,
          opaque |-> type = "image/jpeg" \/ surface.bg # "transparent"]

\* download('jpg'): link.href, or the exception drawImage threw
jpgHref(cv, colour) ==
    LET tmp == fillRect([width |-> cv.width, bg |-> "transparent"], colour)
        drawn == drawImage(tmp, cv)
    IN  IF drawn.ok THEN Ok(toDataURL(drawn.val, "image/jpeg")) ELSE drawn

\* download('png'): link.href
pngHref(cv) == Ok(toDataURL([width |-> cv.width, bg |-> cv.bg], "image/png"))

\* The markup generateSVG builds, as the sequence of its nodes: the XML
\* declaration, the svg element, the background rect and the shapes of
\* the dark modules (one node stands for all of them; they differ in
\* their coordinates only)
svgContent(f, count) ==
    <<[node |-> "?xml"],
      [node |-> "svg", width |-> f.size],
      [node |-> "rect", fill |-> f.bg, width |-> <<"100%">>],
      [node |-> IF Str(f.style) = "dots" THEN "circle" ELSE "rect", fill |-> f.fg,
       width |-> <<"size / (count + margin * 2)">>]>>

\* the elements the svg profiles of the sanitizer let through that the
\* markup can hold
SvgAllowed == {"svg", "rect", "circle"}

\* DOMPurify.sanitize(markup, {USE_PROFILES: {svg: true, svgFilters: true}}):
\* the markup is parsed and serialised again without the nodes that are
\* not elements of the profile (the XML declaration is among them)
svgSanitize(markup) == SelectSeq(markup, LAMBDA n : n.node \in SvgAllowed)

\* a generateSVG that returns the markup as it was built
generateSVGOf_Raw(content, f) ==
    LET qr == qrModuleCount(content.val, f.ec)
    IN  IF ~content.ok THEN content
        ELSE IF ~qr.ok THEN qr
        ELSE Ok(svgContent(f, qr.val))

\* generateSVG() after const content = getContent(): the document it
\* returns, or the exception of getContent() or of qr.make()
generateSVGOf(content, f) ==
    LET qr == qrModuleCount(content.val, f.ec)
    IN  IF ~content.ok THEN content
        ELSE IF ~qr.ok THEN qr
        ELSE Ok(svgSanitize(svgContent(f, qr.val)))

\* generateSVG()
generateSVG(f) == generateSVGOf(getContent(f), f)

\* download('svg'): link.href is the URL of a Blob that holds the document
svgHref(doc) ==
    IF doc.ok THEN Ok([type |-> "image/svg+xml", doc |-> doc.val]) ELSE doc

DownloadFormats == {"png", "jpg", "svg"}

\* fmt.toUpperCase()
toUpperCase(fmt) == CASE fmt = "jpg" -> "JPG" [] fmt = "svg" -> "SVG" [] OTHER -> "PNG"

\* download(fmt), the click handler of a download button
Download ==
    /\ AtTopLevel
    /\ Listening
    /\ \E fmt \in DownloadFormats :
         IF canvas = 0
         THEN /\ status' = Status("Generate a QR code first", "error")
              /\ UNCHANGED link
         ELSE LET href == CASE fmt = "jpg" -> jpgHref(canvases[canvas], form.bg)
                            [] fmt = "svg" -> svgHref(generateSVG(form))
                            [] OTHER -> pngHref(canvases[canvas])
              IN  /\ link' = [fmt |-> fmt, fill |-> IF fmt = "jpg" THEN form.bg ELSE <<>>,
                              href |-> href]
                  /\ IF href.ok
                     THEN status' = Status("Downloaded " \o toUpperCase(fmt), "success")
                     ELSE UNCHANGED status
    /\ UNCHANGED <<build, env, form, ecLocked, logo, uploads, debounceTimer, timers, generating,
                   cache, canvas, qrcodeDiv, canvases, stack, hist, pure, modules>>

\* the page with the background picker and the download buttons
NextDownload ==
    \/ Tick
    \/ DebounceFire
    \/ InitialFire
    \/ GenTry
    \/ GenFinally
    \/ SetBg
    \/ Download

SpecDownload == Init /\ [][NextDownload]_vars

\* ------------------------------------------------ nested event dispatch
\* The design guards generate() against re-entry through events dispatched
\* while a generation is in flight.  SpecNested adds that environment: a
\* timer callback that runs, and a triggering event that is dispatched,
\* between the steps of a generate() execution.
NestedDebounceFire ==
    /\ Reentered
    /\ DebounceCallback

NestedInitialFire ==
    /\ Reentered
    /\ InitialCallback

\* a triggering event dispatched inside generate(): its handler calls
\* debouncedGenerate(); the form keeps its values
NestedTrigger ==
    /\ Reentered
    /\ hist.extras < Budget
    /\ InputEvent(form)
    /\ hist' = Edited(Trig(hist, form, logo))

NextNested ==
    \/ Next
    \/ NestedDebounceFire
    \/ NestedInitialFire
    \/ NestedTrigger

SpecNested == Init /\ [][NextNested]_vars

\* ------------------------------------------------- the cache key, alone
\* SpecHash draws two configurations and applies getConfigHash to both.
HashTexts == {<<>>, <<"a">>, <<"\"">>, <<"\\">>}

HashForms ==
    {[InitialForm("iife") EXCEPT !.text = t, !.size = z, !.logoPercent = lp] :
        t \in HashTexts, z \in {<<"3", "5", "0">>, <<"4", "0", "0">>},
        lp \in {<<"2", "0">>, <<"3", "0">>}}

\* the second configuration with one field given another value
HashVariants(f) ==
    {[f EXCEPT !.text = t] : t \in HashTexts}
    \cup {[f EXCEPT !.size = z] : z \in {<<"3", "5", "0">>, <<"4", "0", "0">>}}
    \cup {[f EXCEPT !.fg = <<"#ff0000">>], [f EXCEPT !.bg = <<"#00ff00">>],
          [f EXCEPT !.ec = <<"H">>], [f EXCEPT !.margin = <<"4">>],
          [f EXCEPT !.style = <<"dots">>], [f EXCEPT !.logoPercent = <<"3", "0">>]}

MaxVary == 2

InitHash ==
    /\ build = "iife"
    /\ env = "edit"
    /\ form = InitialForm(build)
    /\ ecLocked = FALSE
    /\ logo = 0
    /\ uploads = {}
    /\ debounceTimer = 0
    /\ timers = {}
    /\ generating = FALSE
    /\ cache = <<>>
    /\ canvas = 0
    /\ qrcodeDiv = 0
    /\ canvases = <<>>
    /\ status = Status("", "")
    /\ stack = <<>>
    /\ hist = InitialHist
    /\ InitAside
    /\ \E f \in HashForms, l \in 0..2 :
         pure = [op |-> "config", fa |-> f, la |-> l, fb |-> f, lb |-> l, varied |-> 0,
                 ka |-> Ok(<<>>), kb |-> Ok(<<>>)]

HashVary ==
    /\ pure.op = "config"
    /\ pure.varied < MaxVary
    /\ \/ \E f \in HashVariants(pure.fb) :
            pure' = [pure EXCEPT !.fb = f, !.varied = @ + 1]
       \/ \E l \in 0..2 :
            pure' = [pure EXCEPT !.lb = l, !.varied = @ + 1]
    /\ UNCHANGED <<build, env, form, ecLocked, logo, uploads, debounceTimer, timers, generating,
                   cache, canvas, qrcodeDiv, canvases, status, stack, hist, aside>>

HashApply ==
    /\ pure.op = "config"
    /\ pure' = [pure EXCEPT !.op = "hashed",
                            !.ka = getConfigHash(pure.fa, pure.la),
                            !.kb = getConfigHash(pure.fb, pure.lb)]
    /\ UNCHANGED <<build, env, form, ecLocked, logo, uploads, debounceTimer, timers, generating,
                   cache, canvas, qrcodeDiv, canvases, status, stack, hist, aside>>

NextHash ==
    \/ HashVary
    \/ HashApply

SpecHash == InitHash /\ [][NextHash]_vars

\* --------------------------------------------- the content encoder, alone
\* SpecContent draws a form, fills in up to MaxFill fields of the active
\* template and applies getContent.
MaxFill == 2

FieldTexts ==
    {<<>>, <<"a">>, <<"a", ";", "b">>, <<"'", "'">>, <<"\\">>, <<"<", "b", ">">>, <<"&">>}

NameTexts ==
    {<<"J", "a", "n", "e", " ", "S", "m", "i", "t", "h">>, <<"J">>, <<" ", "S">>,
     <<"A", " ", "B", " ", "C">>, <<"O", "'", "N", " ", "P">>}

WifiTexts == {<<"H", "o", "m", "e">>, <<"s", "e", "c", "r", "e", "t">>}

\* texts with characters that percent-encoding changes
UriTexts == {<<"a", " ", "b">>, <<"x", "=", "1">>, <<"1", "0">>}

\* the template kinds of the switch of getContent
KnownTemplates ==
    {"text", "wifi", "vcard", "mecard", "event", "bitcoin", "geo", "social", "app",
     "email", "sms", "phone"}

\* "podcast" is a kind the switch has no case for; "none" is a page where
\* no template button is active (clearAllSettings provides for it)
ContentTemplates == (KnownTemplates \ {"event"}) \cup {"podcast", "none"}

ContentFields(t) ==
    CASE t = "text"    -> {"text"}
      [] t = "wifi"    -> {"wifiSsid", "wifiPassword", "wifiEncryption", "wifiHidden"}
      [] t = "vcard"   -> {"vcardName", "vcardOrg", "vcardTitle", "vcardPhone", "vcardEmail",
                           "vcardUrl", "vcardAddress"}
      [] t = "mecard"  -> {"mecardName", "mecardPhone", "mecardEmail", "mecardUrl",
                           "mecardAddress", "mecardBirthday", "mecardNote"}
      [] t = "bitcoin" -> {"btcAddress", "btcAmount", "btcLabel", "btcMessage"}
      [] t = "geo"     -> {"geoLatitude", "geoLongitude", "geoAltitude", "geoQuery"}
      [] t = "social"  -> {"socialPlatform", "socialUsername"}
      [] t = "app"     -> {"appPlatform", "appId"}
      [] t = "email"   -> {"emailTo", "emailSubject", "emailBody"}
      [] t = "sms"     -> {"smsPhone", "smsMessage"}
      [] t = "phone"   -> {"phoneNumber"}
      [] OTHER         -> {}

ContentValues(field) ==
    CASE field = "wifiHidden"     -> BOOLEAN
      [] field = "wifiEncryption" -> {<<"WPA">>, <<"WEP">>, <<"nopass">>}
      [] field \in {"wifiSsid", "wifiPassword"} -> FieldTexts \cup WifiTexts
      [] field = "vcardName"      -> FieldTexts \cup NameTexts
      [] field = "socialPlatform" -> {<<"facebook">>, <<"github">>, <<"custom">>}
      [] field = "appPlatform"    ->
           {<<"ios">>, <<"android">>, <<"windows">>, <<"amazon">>, <<"custom">>}
      [] field \in {"btcAmount", "btcLabel", "btcMessage", "geoLatitude", "geoLongitude",
                    "geoQuery", "appId", "emailSubject", "emailBody", "smsMessage"}
                                  -> FieldTexts \cup UriTexts
      [] OTHER                    -> FieldTexts

ContentForms ==
    {[InitialForm("iife") EXCEPT !.template = t] : t \in ContentTemplates}
    \cup {[InitialForm("iife") EXCEPT !.template = "wifi",
                                     !.wifiSsid = <<"H", "o", "m", "e">>,
                                     !.wifiPassword = <<"s", "e", "c", "r", "e", "t">>],
          [InitialForm("iife") EXCEPT !.template = "vcard",
                                     !.vcardName = <<"J", "a", "n", "e", " ",
                                                     "S", "m", "i", "t", "h">>]}

\* the state of the page while a pure function is studied
InitPure ==
    /\ build = "iife"
    /\ env = "edit"
    /\ form = InitialForm(build)
    /\ ecLocked = FALSE
    /\ logo = 0
    /\ uploads = {}
    /\ debounceTimer = 0
    /\ timers = {}
    /\ generating = FALSE
    /\ cache = <<>>
    /\ canvas = 0
    /\ qrcodeDiv = 0
    /\ canvases = <<>>
    /\ status = Status("", "")
    /\ stack = <<>>
    /\ hist = InitialHist
    /\ InitAside

UnchangedPage ==
    UNCHANGED <<build, env, form, ecLocked, logo, uploads, debounceTimer, timers, generating,
                cache, canvas, qrcodeDiv, canvases, status, stack, hist, aside>>

InitContent ==
    /\ InitPure
    /\ \E f \in ContentForms : pure = [op |-> "form", f |-> f, filled |-> 0, out |-> Ok(<<>>)]

ContentFill ==
    /\ pure.op = "form"
    /\ pure.filled < MaxFill
    /\ \E field \in ContentFields(pure.f.template) :
         \E v \in ContentValues(field) :
           /\ pure.f[field] # v
           /\ pure' = [pure EXCEPT !.f = [@ EXCEPT ![field] = v], !.filled = @ + 1]
    /\ UnchangedPage

ContentEncode ==
    /\ pure.op = "form"
    /\ pure' = [pure EXCEPT !.op = "encoded", !.out = getContent(pure.f)]
    /\ UnchangedPage

NextContent ==
    \/ ContentFill
    \/ ContentEncode

SpecContent == InitContent /\ [][NextContent]_vars

\* ------------------------------------------------ the raster side, alone
\* SpecRaster draws a size, a module count and a margin and computes the
\* cell size and the side of the canvas.
MaxSmallSize == 60
MaxVersion == 3
MaxMargin == 4

RasterSizes == (0..MaxSmallSize) \cup SliderValues

\* getModuleCount() of a version-v symbol; version 40 is the largest
ModuleCounts == {17 + 4 * v : v \in (1..MaxVersion) \cup {40}}

InitRaster ==
    /\ InitPure
    /\ \E n \in ModuleCounts, m \in 0..MaxMargin :
         pure = [op |-> "dims", size |-> parseInt(InitialForm(build).size), count |-> n,
                 margin |-> m, cell |-> 0, actual |-> 0]

RasterResize ==
    /\ pure.op = "dims"
    /\ pure.size = parseInt(InitialForm(build).size)
    /\ \E z \in RasterSizes \ {pure.size} : pure' = [pure EXCEPT !.size = z]
    /\ UnchangedPage

RasterApply ==
    /\ pure.op = "dims"
    /\ pure' = [pure EXCEPT !.op = "sized",
                            !.cell = cellSize(pure.size, pure.count, pure.margin),
                            !.actual = actualSize(pure.size, pure.count, pure.margin)]
    /\ UnchangedPage

NextRaster ==
    \/ RasterResize
    \/ RasterApply

SpecRaster == InitRaster /\ [][NextRaster]_vars

\* ------------------------------------------- theme and browser storage
\* SpecTheme is the page at rest with its ThemeManager, the system colour
\* scheme and, in the iife build, the pending tip of showUserGuidance().
MaxClicks == 3

SavedThemes == {"null", "light", "dark"}

InitTheme ==
    /\ build \in Builds
    /\ env = "edit"
    /\ form = InitialForm(build)
    /\ ecLocked = FALSE
    /\ logo = 0
    /\ uploads = {}
    /\ debounceTimer = 0
    /\ generating = FALSE
    /\ cache = <<>>
    /\ canvas = 0
    /\ qrcodeDiv = 0
    /\ canvases = <<>>
    /\ status = Status("", "")
    /\ stack = <<>>
    /\ hist = InitialHist
    /\ pure = [op |-> "none"]
    /\ link = NoLink
    /\ \E saved \in SavedThemes, visited \in {"null", "true"} :
         /\ localStorage = [theme |-> saved, visited |-> visited]
         \* showUserGuidance(): a first visit schedules the tip
         /\ timers = IF build = "iife" /\ visited = "null"
                     THEN {[id |-> 1, kind |-> "guidance", remaining |-> 2000]}
                     ELSE {}
         /\ \E file \in ThemeFiles, dark \in BOOLEAN : theme = ThemeInit(file, saved, dark)
    /\ monitor = NewMonitor("js/modules/network-monitor.js")
    /\ lifecycle = Running(build)
    /\ boot = Booted(build)

UnchangedGenerator ==
    UNCHANGED <<build, env, form, ecLocked, logo, uploads, debounceTimer, generating, cache,
                canvas, qrcodeDiv, canvases, stack, hist, pure, link, monitor,
                lifecycle, boot>>

\* a click handler that does not save the theme
toggleSave_Skip(items, newTheme) == items

\* localStorage.setItem('qr-generator-theme', newTheme)
toggleSave(items, newTheme) == [items EXCEPT !.theme = newTheme]

\* the click handler of #theme-toggle; theme-manager.js ignores the click
\* while isToggling is set and clears the flag 100 ms later
ThemeClick ==
    /\ theme.clicks < MaxClicks
    /\ IF theme.file = "js/modules/theme-manager.js" /\ theme.isToggling
       THEN UNCHANGED <<theme, localStorage, timers>>
       ELSE LET current == theme.applied
                newTheme == IF current = "light" THEN "dark" ELSE "light"
            IN  /\ theme' = [theme EXCEPT !.applied = applyTheme(newTheme),
                                          !.isToggling = (theme.file
                                                          = "js/modules/theme-manager.js"),
                                          !.clicks = @ + 1]
                /\ localStorage' = toggleSave(localStorage, newTheme)
                /\ timers' = IF theme.file = "js/modules/theme-manager.js"
                             THEN timers \cup {[id |-> 2, kind |-> "toggling",
                                                remaining |-> 100]}
                             ELSE timers
    /\ UNCHANGED status
    /\ UnchangedGenerator

\* setTimeout(() => { this.isToggling = false; }, 100)
TogglingTimeout ==
    /\ \E t \in timers :
         /\ t.kind = "toggling"
         /\ timers' = timers \ {t}
    /\ theme' = [theme EXCEPT !.isToggling = FALSE]
    /\ UNCHANGED <<localStorage, status>>
    /\ UnchangedGenerator

\* a change listener that applies the system scheme whatever is saved
systemFollows_Always(items) == TRUE

\* if (!localStorage.getItem('qr-generator-theme'))
systemFollows(items) == items.theme = "null"

\* the change event of matchMedia('(prefers-color-scheme: dark)')
SystemChange ==
    /\ theme' = [theme EXCEPT !.systemDark = ~@,
                              !.applied = IF systemFollows(localStorage)
                                          THEN applyTheme(IF ~theme.systemDark THEN "dark"
                                                          ELSE "light")
                                          ELSE @]
    /\ UNCHANGED <<localStorage, timers, status>>
    /\ UnchangedGenerator

\* the timer callback of showUserGuidance() (iife build)
GuidanceFire ==
    /\ \E t \in timers :
         /\ t.kind = "guidance"
         /\ timers' = timers \ {t}
    /\ status' = Status("Tip: Try different templates and customize colors!", "success")
    /\ localStorage' = [localStorage EXCEPT !.visited = "true"]
    /\ UNCHANGED theme
    /\ UnchangedGenerator

NextTheme ==
    \/ ThemeClick
    \/ TogglingTimeout
    \/ SystemChange
    \/ GuidanceFire

SpecTheme == InitTheme /\ [][NextTheme]_vars

\* ------------------------------------------------------- NetworkMonitor
\* addEntry calls, calls of the intercepted APIs and resources loaded
\* before the script in one run
MaxRequests == 12

MaxCalls == 2

MaxResources == 2

\* the generator, the download link and the theme
page == <<build, env, form, ecLocked, logo, uploads, debounceTimer, timers, generating,
          cache, canvas, qrcodeDiv, canvases, status, stack, hist, pure, link,
          localStorage, theme, lifecycle, boot>>

\* a log that is never trimmed
addEntry_NoLimit(m, method, type) ==
    [m EXCEPT !.totalRequests = @ + 1,
              !.added = @ + 1,
              !.log = <<[n |-> m.added + 1, method |-> method, type |-> type]>> \o @]

\* addEntry(method, type, url, status): the entry becomes the first child
\* of the log and the last child goes when there are more than LOG_LIMIT
addEntry(m, method, type) ==
    LET entries == <<[n |-> m.added + 1, method |-> method, type |-> type]>> \o m.log
    IN  [m EXCEPT !.totalRequests = @ + 1,
                  !.added = @ + 1,
                  !.log = IF Len(entries) > LOG_LIMIT
                          THEN SubSeq(entries, 1, Len(entries) - 1)
                          ELSE entries]

\* markOutbound(method, url)
markOutbound(m) ==
    [m EXCEPT !.outboundCount = @ + 1,
              !.className = "no-outbound outbound-warning"]

\* method !== 'GET' && method !== 'HEAD' && method !== 'OPTIONS'
flagged(method) == method \notin {"GET", "HEAD", "OPTIONS"}

\* the body shared by the fetch and XMLHttpRequest wrappers
logRequest(m, method, type) ==
    IF flagged(method) THEN markOutbound(addEntry(m, method, type))
    ELSE addEntry(m, method, type)

\* captureInitialResources(): one entry per resource already loaded
RECURSIVE captureInitialResources(_, _)
captureInitialResources(m, k) ==
    IF k = 0 THEN m ELSE captureInitialResources(addEntry(m, "GET", "script"), k - 1)

\* fetch(input, init): input is a URL string or a Request that carries its
\* own method, init.method ("" when absent) overrides it
FetchCalls ==
    {[input |-> "string", request |-> "GET", options |-> o] : o \in {"", "POST", "HEAD"}}
    \cup {[input |-> "Request", request |-> "POST", options |-> ""]}

\* the method of the request that fetch(input, init) makes
requestMethod(call) == IF call.options # "" THEN call.options ELSE call.request

\* the methods a page gives to XMLHttpRequest.open
XhrMethods == {"GET", "POST"}

InitMonitor ==
    /\ build \in Builds
    /\ env = "edit"
    /\ form = InitialForm(build)
    /\ ecLocked = FALSE
    /\ logo = 0
    /\ uploads = {}
    /\ debounceTimer = 0
    /\ timers = {}
    /\ generating = FALSE
    /\ cache = <<>>
    /\ canvas = 0
    /\ qrcodeDiv = 0
    /\ canvases = <<>>
    /\ status = Status("", "")
    /\ stack = <<>>
    /\ hist = InitialHist
    /\ pure = [op |-> "none"]
    /\ link = NoLink
    /\ localStorage = NoItems
    /\ theme = ThemeInit("js/modules/theme-manager.js", "null", FALSE)
    /\ \E file \in MonitorFiles, k \in 0 .. MaxResources :
         monitor = captureInitialResources(NewMonitor(file), k)
    /\ lifecycle = Running(build)
    /\ boot = Booted(build)

CanCall == monitor.calls < MaxCalls /\ monitor.added < MaxRequests

\* observers.forEach(observer => observer.disconnect())
disconnect(m) == [m EXCEPT !.observing = FALSE]

\* the observation of one call of an intercepted API
Intercepted(m, api, method, thrown) ==
    [m EXCEPT !.calls = @ + 1,
              !.last = [api |-> api, method |-> method, thrown |-> thrown]]

\* the PerformanceObserver callback, for one resource entry
ResourceObserved ==
    /\ monitor.added < MaxRequests
    /\ monitor.observing
    /\ monitor' = [addEntry(monitor, "GET", "script") EXCEPT
                     !.last = [api |-> "resource", method |-> "GET", thrown |-> ""]]
    /\ UNCHANGED page

\* window.fetch(...args): the method logged is options.method || 'GET'
Fetch ==
    /\ CanCall
    /\ \E call \in FetchCalls :
         LET method == IF call.options # "" THEN call.options ELSE "GET"
         IN  monitor' = Intercepted(logRequest(monitor, method, "fetch"),
                               "fetch", requestMethod(call), "")
    /\ UNCHANGED page

\* XMLHttpRequest.prototype.send after open(method, url). In part_000 the
\* wrapper is a function and reads the request's _method. In
\* network-monitor.js it is an arrow function: this is the monitor, which has
\* no _method, and the native send applied to it throws
XhrSend ==
    /\ CanCall
    /\ \E opened \in XhrMethods :
         monitor' = IF monitor.file = "part_000"
                    THEN Intercepted(logRequest(monitor, opened, "xhr"), "xhr", opened, "")
                    ELSE Intercepted(logRequest(monitor, "GET", "xhr"), "xhr", opened,
                                "TypeError")
    /\ UNCHANGED page

\* navigator.sendBeacon(url, data)
SendBeacon ==
    /\ CanCall
    /\ monitor' = Intercepted(markOutbound(addEntry(monitor, "BEACON", "beacon")),
                         "beacon", "BEACON", "")
    /\ UNCHANGED page

\* new WebSocket(url). In part_000 window.WebSocket is a Proxy with a
\* construct trap. In network-monitor.js it is an arrow function, which has
\* no [[Construct]]: new throws before the body runs
NewWebSocket ==
    /\ CanCall
    /\ monitor' = IF monitor.file = "part_000"
                  THEN Intercepted(markOutbound(addEntry(monitor, "WS", "websocket")),
                              "websocket", "WS", "")
                  ELSE Intercepted(monitor, "websocket", "WS", "TypeError")
    /\ UNCHANGED page

\* cleanup() of network-monitor.js: the observers are disconnected, the
\* wrappers stay in place
MonitorCleanup ==
    /\ monitor.file = "js/modules/network-monitor.js"
    /\ monitor.observing
    /\ monitor' = [disconnect(monitor) EXCEPT
                     !.last = [api |-> "cleanup", method |-> "", thrown |-> ""]]
    /\ UNCHANGED page

NextMonitor ==
    \/ ResourceObserved
    \/ Fetch
    \/ XhrSend
    \/ SendBeacon
    \/ NewWebSocket
    \/ MonitorCleanup

SpecMonitor == InitMonitor /\ [][NextMonitor]_vars

\* ------------------------------------------------------------- cleanup()
\* cachedCanvas.width = 0 for every canvas of the cache, then
\* state.canvas.width = 0
disposeCanvases(cs, c, cv) ==
    [i \in DOMAIN cs |->
        IF i = cv \/ \E j \in 1 .. Len(c) : c[j].cvs = i
        THEN [cs[i] EXCEPT !.width = 0]
        ELSE cs[i]]

\* cleanup(), the beforeunload listener of the iife build
Cleanup ==
    /\ build = "iife"
    /\ AtTopLevel
    /\ lifecycle' = [isInitialized |-> FALSE, eventListeners |-> "removed", cleaned |-> TRUE]
    /\ canvases' = Collect(disposeCanvases(canvases, cache, canvas), <<>>, 0, qrcodeDiv)
    /\ cache' = <<>>
    /\ timers' = IF debounceTimer # 0 THEN clearTimeout(timers, debounceTimer) ELSE timers
    /\ debounceTimer' = 0
    /\ logo' = 0
    /\ canvas' = 0
    /\ monitor' = IF monitor.file = "js/modules/network-monitor.js" THEN disconnect(monitor)
                  ELSE monitor
    /\ hist' = [hist EXCEPT !.fifo = <<>>, !.hitSeen = FALSE]
    /\ UNCHANGED <<build, env, form, ecLocked, uploads, generating, qrcodeDiv, status, stack,
                   pure, link, localStorage, theme, boot>>

InitCleanup ==
    /\ Init
    /\ build = "iife"
    /\ env = "edit"

\* the page from init() to its teardown
NextCleanup ==
    \/ Tick
    \/ DebounceFire
    \/ InitialFire
    \/ GenTry
    \/ GenFinally
    \/ SetText
    \/ LogoChange
    \/ ReaderLoad
    \/ ImgLoad
    \/ Cleanup

SpecCleanup == InitCleanup /\ [][NextCleanup]_vars

\* ----------------------------------------------------------------- init()
\* the calls that load the optional modules
LoadSteps == <<"import", "new NetworkMonitor", "new ThemeManager">>

\* the try block of init(), call by call
TrySteps(b) ==
    LoadSteps \o CoreSteps(b) \o <<"setTimeout", "showStatus">>
    \o (IF b = "iife" THEN <<"isInitialized">> ELSE <<>>)

\* a catch block that leaves it at the message
CatchSteps_StatusOnly(b) == <<"showStatus">>

\* the catch block of init(), call by call
CatchSteps(b) == <<"showStatus">> \o CoreSteps(b) \o <<"setTimeout">>

\* the calls of the try block that can throw
Throwing(b) == Range(TrySteps(b)) \ {"isInitialized"}

\* before init(): nothing is set up, no timer runs
InitBoot ==
    /\ build \in Builds
    /\ env = "edit"
    /\ form = InitialForm(build)
    /\ ecLocked = FALSE
    /\ logo = 0
    /\ uploads = {}
    /\ debounceTimer = 0
    /\ timers = {}
    /\ generating = FALSE
    /\ cache = <<>>
    /\ canvas = 0
    /\ qrcodeDiv = 0
    /\ canvases = <<>>
    /\ status = Status("", "")
    /\ stack = <<>>
    /\ hist = InitialHist
    /\ pure = [op |-> "none"]
    /\ link = NoLink
    /\ localStorage = NoItems
    /\ theme = ThemeInit("js/modules/theme-manager.js", "null", FALSE)
    /\ monitor = NewMonitor("js/modules/network-monitor.js")
    /\ lifecycle = [isInitialized |-> FALSE, eventListeners |-> "none", cleaned |-> FALSE]
    /\ \E f \in Throwing(build) \cup {"none"}, again \in BOOLEAN :
         boot = [phase |-> "try", pc |-> 1, failAt |-> f, again |-> again,
                 count |-> [c \in Range(CoreSteps(build)) |-> 0],
                 scheduled |-> 0]

\* the message init() shows at the end of the try block and at the start
\* of the catch block
initStatus(b, phase) ==
    IF phase = "try"
    THEN Status(IF b = "iife" THEN "Application loaded successfully" ELSE "Ready", "success")
    ELSE Status(IF b = "iife" THEN "Failed to load some features"
                ELSE "Some features unavailable", "error")

\* one call of init() that returns: what it leaves of boot, timers, status
\* and lifecycle
initCall(step, next) ==
    /\ boot' = [next EXCEPT
                  !.count = IF step \in DOMAIN @ THEN [@ EXCEPT ![step] = @ + 1] ELSE @,
                  !.scheduled = IF step = "setTimeout" THEN @ + 1 ELSE @]
    /\ timers' = IF step = "setTimeout"
                 THEN timers \cup {[id |-> NewTimerId(timers), kind |-> "initial",
                                    remaining |-> INITIAL_GENERATION_DELAY]}
                 ELSE timers
    /\ status' = IF step = "showStatus" THEN initStatus(build, boot.phase) ELSE status
    /\ lifecycle' = IF step = "isInitialized" THEN [lifecycle EXCEPT !.isInitialized = TRUE]
                    ELSE IF step = "setupEventListeners"
                    THEN [lifecycle EXCEPT !.eventListeners = "attached"]
                    ELSE lifecycle

UnchangedByInit ==
    UNCHANGED <<build, env, form, ecLocked, logo, uploads, debounceTimer, generating, cache,
                canvas, qrcodeDiv, canvases, stack, hist, pure, link, localStorage, theme,
                monitor>>

\* the next call of the try block; the one that throws passes control to
\* the catch block
TryStep ==
    /\ boot.phase = "try"
    /\ LET step == TrySteps(build)[boot.pc]
           last == boot.pc = Len(TrySteps(build))
       IN  IF step = boot.failAt
           THEN /\ boot' = [boot EXCEPT !.phase = "catch", !.pc = 1]
                /\ UNCHANGED <<timers, status, lifecycle>>
           ELSE initCall(step, [boot EXCEPT !.phase = IF last THEN "done" ELSE "try",
                                            !.pc = IF last THEN 0 ELSE @ + 1])
    /\ UnchangedByInit

\* the next call of the catch block; when the call that threw in the try
\* block throws again, init() is left with a rejected promise
CatchStep ==
    /\ boot.phase = "catch"
    /\ LET step == CatchSteps(build)[boot.pc]
           last == boot.pc = Len(CatchSteps(build))
       IN  IF step = boot.failAt /\ boot.again
           THEN /\ boot' = [boot EXCEPT !.phase = "rejected", !.pc = 0]
                /\ UNCHANGED <<timers, status, lifecycle>>
           ELSE initCall(step, [boot EXCEPT !.phase = IF last THEN "done" ELSE "catch",
                                            !.pc = IF last THEN 0 ELSE @ + 1])
    /\ UnchangedByInit

NextBoot ==
    \/ TryStep
    \/ CatchStep

SpecBoot == InitBoot /\ [][NextBoot]_vars

\* ================================================================ claims
DebounceTimers == {t \in timers : t.kind = "debounce"}

Displayed == <<cache, canvas, qrcodeDiv, canvases>>

\* C1: the render cache never holds more than MAX_CACHE_SIZE entries
CacheBounded == Len(cache) <= MAX_CACHE_SIZE

\* the cache is full and the last insertion evicted an entry
CacheBoundedWitness == Len(cache) = MAX_CACHE_SIZE /\ hist.evicted # <<>>

\* C2: eviction is strict FIFO: the cache holds exactly the last
\* MAX_CACHE_SIZE keys inserted since it was last cleared, in insertion
\* order, whatever cache hits were served in between; an insertion into a
\* full cache drops the first key and appends the new one
FifoOrder == CacheKeys(cache) = hist.fifo

FifoEviction ==
    [][Len(cache) = MAX_CACHE_SIZE /\ cache' # cache /\ cache' # <<>>
         => /\ Len(cache') = MAX_CACHE_SIZE
            /\ SubSeq(cache', 1, MAX_CACHE_SIZE - 1) = Tail(cache)
            /\ hist'.evicted = Head(cache).key]_vars

StrictFifo == []FifoOrder /\ FifoEviction

\* an entry was evicted from a cache that had served a hit
StrictFifoWitness == hist.evicted # <<>> /\ hist.hitSeen /\ Len(cache) = MAX_CACHE_SIZE

\* C3: a burst of triggering events leaves one debounce timer, due
\* DEBOUNCE_DELAY after the last event; it makes one generate() call, on the
\* configuration as it is after the last event
DebounceOnce ==
    /\ Cardinality(DebounceTimers) <= 1
    /\ \A t \in DebounceTimers :
         /\ t.remaining + hist.elapsed = DEBOUNCE_DELAY
         /\ hist.calls = 0
         /\ hist.trigKey = getConfigHash(form, logo)
    /\ (hist.triggered /\ DebounceTimers = {}) => hist.calls = 1

\* the timer of a burst of two or more events has fired
DebounceOnceWitness ==
    hist.burst >= 2 /\ DebounceTimers = {} /\ hist.calls = 1 /\ hist.elapsed = DEBOUNCE_DELAY

\* C4: at most one generate() execution is in the Generating phase; a
\* generate() call that finds state.generating set changes neither cache,
\* display nor status; a generation in flight is not interrupted
GuardedCall == (NestedDebounceFire \/ NestedInitialFire) /\ generating

GenerateExclusive ==
    /\ [](Len(stack) <= 1 /\ (generating <=> stack # <<>>))
    /\ [][GuardedCall => UNCHANGED <<Displayed, status, generating, stack>>]_vars
    /\ [][stack # <<>> => \/ stack' = stack
                          \/ stack' = <<>> /\ Top.pc = "finally"
                          \/ stack' = <<[Top EXCEPT !.pc = "finally"]>> /\ Top.pc = "try"]_vars

\* generate() was called while a generation was in flight, and returned
GenerateExclusiveWitness == hist.outcome = "guarded" /\ generating /\ stack # <<>>

NoUncaughtException == hist.outcome # "uncaught"

\* C7: a generation that fails in the try block leaves the cache and the
\* displayed artifact as they were when it started, and shows an error
FailureFrame ==
    [][(\/ Len(stack') > Len(stack)
        \/ stack # <<>> /\ Top.pc = "try" /\ hist'.outcome = "caught"
        \/ stack # <<>> /\ Top.pc = "finally")
         => /\ UNCHANGED Displayed
            /\ (stack # <<>> /\ Top.pc = "try") => status'.type = "error"]_vars

\* the context could not be created while an artifact was displayed
FailureFrameWitness ==
    /\ hist.outcome = "caught"
    /\ status.type = "error"
    /\ status.msg \in {"Failed to get canvas context",
                       "Cannot set properties of null (setting 'fillStyle')"}
    /\ canvas # 0
    /\ cache # <<>>

\* C8: two configurations get the same key exactly when their nine fields
\* agree, the logo counting as present or absent only
ConfigAgree(fa, la, fb, lb) ==
    /\ getContent(fa).val = getContent(fb).val
    /\ fa.size = fb.size
    /\ fa.fg = fb.fg
    /\ fa.bg = fb.bg
    /\ fa.ec = fb.ec
    /\ fa.margin = fb.margin
    /\ fa.style = fb.style
    /\ fa.logoPercent = fb.logoPercent
    /\ (la # 0) = (lb # 0)

KeyDeterminism ==
    pure.op = "hashed"
      => ((pure.ka = pure.kb) <=> ConfigAgree(pure.fa, pure.la, pure.fb, pure.lb))

\* two configurations that differ in the logo image only have one key
KeyDeterminismWitness ==
    /\ pure.op = "hashed"
    /\ pure.fa = pure.fb
    /\ pure.la # 0 /\ pure.lb # 0 /\ pure.la # pure.lb
    /\ pure.ka = pure.kb

\* C9 (as claimed): a cache hit displays the cached artifact, does not set
\* the generating flag, and leaves the keys, the order and the stored
\* artifacts of the cache unchanged; it ends with 'Ready (cached)'
IsHit == getConfigHash(form, logo).ok /\ CacheHas(cache, getConfigHash(form, logo).val)

HitFrame ==
    [][(DebounceFire \/ InitialFire) /\ IsHit
         => /\ cache' = cache
            /\ \A i \in 1..Len(cache) : canvases'[cache[i].cvs] = canvases[cache[i].cvs]
            /\ canvas' = CacheGet(cache, getConfigHash(form, logo).val)
            /\ qrcodeDiv' = canvas'
            /\ generating' = FALSE /\ stack' = <<>>
            /\ status' = Status("Ready (cached)", "success")]_vars

\* C10: after a successful cache-miss generation the cache maps the key of
\* the configuration to the canvas just rendered, which is intact and is
\* the one displayed; the insertion did not evict its own entry
MissStored ==
    (stack # <<>> /\ Top.pc = "finally" /\ hist.outcome = "ok")
      => /\ CacheHas(cache, Top.key)
         /\ CacheGet(cache, Top.key) = canvas
         /\ qrcodeDiv = canvas
         /\ canvases[canvas].key = Top.key
         /\ canvases[canvas].width > 0
         /\ hist.evicted # Top.key

\* a successful generation whose insertion evicted another entry
MissStoredWitness ==
    /\ stack # <<>> /\ Top.pc = "finally" /\ hist.outcome = "ok"
    /\ hist.evicted # <<>>
    /\ CacheGet(cache, Top.key) = canvas

\* C11 (as claimed): an entry evicted on overflow has had the backing store
\* of its canvas released (width and height 0) when it is deleted
EvictionReleases == hist.evicted # <<>> => hist.evictedWidth = 0

\* C12 (as claimed): a display replacement never releases the previously
\* displayed canvas while the cache still holds it
DisplayStep ==
    \/ (DebounceFire \/ InitialFire) /\ IsHit
    \/ GenTry /\ hist'.outcome = "ok"

DisplayKeepsCached ==
    [][(/\ DisplayStep
        /\ qrcodeDiv # 0
        /\ \E i \in 1..Len(cache') : cache'[i].cvs = qrcodeDiv)
         => canvases'[qrcodeDiv].width = canvases[qrcodeDiv].width]_vars

\* C13: when a logo image has loaded it is stored in state.logo, the
\* error-correction level becomes H whatever it was, and a debounced
\* generation is scheduled
LogoForcesH ==
    [][ImgLoad => /\ logo' # 0
                  /\ form'.ec = <<"H">>
                  /\ debounceTimer' # 0
                  /\ \E t \in timers' : /\ t.id = debounceTimer'
                                         /\ t.kind = "debounce"
                                         /\ t.remaining = DEBOUNCE_DELAY]_vars

\* a logo has loaded while the level was L
LogoForcesHWitness ==
    /\ logo # 0
    /\ hist.logoEcWas = <<"L">>
    /\ form.ec = <<"H">>
    /\ DebounceTimers # {}

\* C14: a file that is not an image or is larger than 5*1024*1024 bytes is
\* rejected with an error status; no read starts, and the logo, the form,
\* the cache and the debounce timer stay as they were; any other file
\* (one of exactly that size included) is read
PickedFile == CHOOSE file \in Files : file.img = hist'.picked

LogoValidation ==
    [][LogoChange =>
         IF Head(PickedFile.type) # "image/" \/ PickedFile.size > 5 * 1024 * 1024
         THEN /\ status'.type = "error"
              /\ UNCHANGED <<uploads, logo, form, ecLocked, cache, canvases, timers,
                             debounceTimer>>
         ELSE /\ [img |-> PickedFile.img, stage |-> "read"] \in uploads'
              /\ UNCHANGED <<status, logo, form, ecLocked, cache, canvases, timers,
                             debounceTimer>>]_vars

\* an oversized file was rejected after a file of exactly 5 MB had been
\* accepted and loaded
LogoValidationWitness ==
    /\ hist.picked = 4
    /\ status.type = "error"
    /\ logo = 2
    /\ uploads = {}

\* the form that was encoded and the content getContent returned
Encoded(t) == pure.op = "encoded" /\ pure.f.template = t

\* C17: with mode 'nopass' the WiFi content has no P: field even if a
\* password was entered; with another mode it has one exactly when the
\* (sanitized) password is non-empty; ssid Home, password secret, mode
\* nopass, not hidden gives WIFI:T:nopass;S:Home;;
WifiEncoding ==
    Encoded("wifi") =>
      LET f == pure.f
          out == pure.out.val
          hasP == \E i \in 1..Len(out) : out[i] = "P:"
      IN  /\ pure.out.ok
          /\ Str(f.wifiEncryption) = "nopass" => ~hasP
          /\ Str(f.wifiEncryption) # "nopass" => (hasP <=> sanitizeInput(f.wifiPassword) # <<>>)
          /\ (/\ Str(f.wifiSsid) = "Home"
              /\ Str(f.wifiPassword) = "secret"
              /\ Str(f.wifiEncryption) = "nopass"
              /\ ~f.wifiHidden) => Str(out) = "WIFI:T:nopass;S:Home;;"

\* the example of the claim has been encoded
WifiEncodingWitness ==
    /\ Encoded("wifi")
    /\ Str(pure.f.wifiPassword) = "secret"
    /\ Str(pure.f.wifiEncryption) = "nopass"
    /\ Str(pure.out.val) = "WIFI:T:nopass;S:Home;;"

\* C18 (as claimed): the vCard content starts with N:<last part>;<the
\* other parts joined by spaces>;;; and FN:<name> when the name has two or
\* more space-separated parts, and with N:;<name>;;; when it has one
VcardName ==
    Encoded("vcard") =>
      LET n == OrElse(sanitizeInput(pure.f.vcardName), <<"John", " ", "Doe">>)
          parts == split(n, " ")
          k == Len(parts)
          family == IF k >= 2 THEN parts[k] ELSE <<>>
          given == IF k >= 2 THEN JoinWith(SubSeq(parts, 1, k - 1), " ") ELSE n
          hdr == "BEGIN:VCARD\nVERSION:3.0\nN:" \o Str(esc(family)) \o ";" \o Str(esc(given))
                 \o ";;;\nFN:" \o Str(esc(n)) \o "\n"
      IN  /\ pure.out.ok
          /\ \E j \in 1..Len(pure.out.val) : Str(SubSeq(pure.out.val, 1, j)) = hdr

\* C19 (as claimed): no field tag is followed by a blank value
FieldTags ==
    {"P:", "ORG:", "TITLE:", "TEL:", "EMAIL:", "URL:", "ADR:;;", "N:", "ADR:", "BDAY:",
     "NOTE:", "amount=", "label=", "message="}

FieldEnds == {"\n", ";", ";;;;\n", "&"}

NoBlankField ==
    (pure.op = "encoded" /\ pure.out.ok) =>
      LET out == pure.out.val
      IN  \A i \in 1..Len(out) :
            out[i] \in FieldTags => (i < Len(out) /\ out[i + 1] \notin FieldEnds)

\* C20: esc puts one backslash before each backslash, semicolon, comma,
\* colon, double quote and single quote and changes nothing else; every
\* free-text value placed in a WIFI, VCARD or MECARD field went through
\* esc once
EscSpecials == {"\\", ";", ",", ":", "\"", "'"}

Expand(c) ==
    CASE c = "&amp;" -> <<"&", "a", "m", "p", ";">>
      [] c = "&gt;"  -> <<"&", "g", "t", ";">>
      [] c = "&amp"  -> <<"&", "a", "m", "p">>
      [] c = "&gt"   -> <<"&", "g", "t">>
      [] OTHER       -> <<c>>

Letters(s) == Flatten([i \in 1..Len(s) |-> Expand(s[i])])

CountIn(s, S) == Cardinality({i \in 1..Len(s) : s[i] \in S})

RECURSIVE EscapedOnce(_, _)
EscapedOnce(s, e) ==
    IF s = <<>> THEN e = <<>>
    ELSE IF Head(s) \in EscSpecials
         THEN /\ Len(e) >= 2
              /\ e[1] = "\\"
              /\ e[2] = Head(s)
              /\ EscapedOnce(Tail(s), Tail(Tail(e)))
         ELSE /\ e # <<>>
              /\ e[1] = Head(s)
              /\ EscapedOnce(Tail(s), Tail(e))

Placed(value) == IF value # <<>> THEN <<sanitizeInput(value)>> ELSE <<>>

PlacedValues(f) ==
    CASE f.template = "wifi" ->
           <<OrElse(sanitizeInput(f.wifiSsid), <<"WiFi">>)>>
           \o (IF sanitizeInput(f.wifiPassword) # <<>> /\ Str(f.wifiEncryption) # "nopass"
               THEN <<sanitizeInput(f.wifiPassword)>> ELSE <<>>)
      [] f.template = "vcard" ->
           LET n == OrElse(sanitizeInput(f.vcardName), <<"John", " ", "Doe">>)
               parts == split(n, " ")
               k == Len(parts)
           IN  <<n, IF k >= 2 THEN parts[k] ELSE <<>>,
                 IF k >= 2 THEN OrElse(JoinWith(SubSeq(parts, 1, k - 1), " "), n) ELSE n>>
               \o Placed(f.vcardOrg) \o Placed(f.vcardTitle) \o Placed(f.vcardPhone)
               \o Placed(f.vcardEmail) \o Placed(f.vcardUrl) \o Placed(f.vcardAddress)
      [] f.template = "mecard" ->
           Placed(f.mecardName) \o Placed(f.mecardPhone) \o Placed(f.mecardEmail)
           \o Placed(f.mecardUrl) \o Placed(f.mecardAddress) \o Placed(f.mecardBirthday)
           \o Placed(f.mecardNote)

EscOnce ==
    (Encoded("wifi") \/ Encoded("vcard") \/ Encoded("mecard")) =>
      LET pv == PlacedValues(pure.f)
      IN  /\ \A i \in 1..Len(pv) : EscapedOnce(Letters(pv[i]), Letters(esc(pv[i])))
          /\ CountIn(Letters(pure.out.val), {"\\"})
               = SeqSum([i \in 1..Len(pv) |-> CountIn(Letters(pv[i]), EscSpecials)
                                              + CountIn(Letters(pv[i]), {"\\"})])

\* a value of two single quotes has been encoded in a vCard
EscOnceWitness ==
    /\ Encoded("vcard")
    /\ pure.f.vcardOrg = <<"'", "'">>
    /\ Str(pure.out.val)
         = "BEGIN:VCARD\nVERSION:3.0\nN:Doe;John;;;\nFN:John Doe\nORG:\\'\\'\nEND:VCARD"

\* C15: clearAllSettings leaves the cache empty, no logo, level M with
\* every level selectable and a debounced generation pending; the
\* generation that follows finds the cache empty and is a miss
ClearAllResets ==
    /\ [][ClearAll => /\ cache' = <<>>
                      /\ logo' = 0
                      /\ form'.ec = <<"M">>
                      /\ ~ecLocked'
                      /\ debounceTimer' # 0
                      /\ \E t \in timers' : /\ t.id = debounceTimer'
                                             /\ t.kind = "debounce"
                                             /\ t.remaining = DEBOUNCE_DELAY]_vars
    /\ [][(/\ cache = <<>>
           /\ DebounceFire \/ InitialFire
           /\ getConfigHash(form, logo).ok)
            => hist'.outcome = "miss" /\ generating' /\ cache' = <<>>]_vars

\* all settings were cleared while a logo was set and an artifact with
\* that logo was displayed
ClearAllResetsWitness ==
    /\ status.msg = "Settings cleared"
    /\ hist.logoEcWas # <<>>
    /\ canvas # 0
    /\ canvases[canvas].logo # 0
    /\ cache = <<>>
    /\ logo = 0
    /\ form.ec = <<"M">>
    /\ DebounceTimers # {}

\* C16: the side of the raster is floor(size / (count + 2*margin)) times
\* count + 2*margin: it is at most size, less than count + 2*margin short
\* of it, and positive exactly when size >= count + 2*margin; size 400,
\* count 21, margin 2 give cell 16 and side 400
RasterSide ==
    pure.op = "sized" =>
      LET d == pure.count + 2 * pure.margin
      IN  /\ pure.cell * d <= pure.size
          /\ pure.size < (pure.cell + 1) * d
          /\ pure.actual = pure.cell * d
          /\ pure.actual <= pure.size
          /\ pure.size - pure.actual < d
          /\ (pure.actual > 0) <=> (pure.size >= d)
          /\ (pure.size = 400 /\ pure.count = 21 /\ pure.margin = 2)
               => (pure.cell = 16 /\ pure.actual = 400)

\* the example of the claim has been computed
RasterSideWitness ==
    /\ pure.op = "sized"
    /\ pure.size = 400 /\ pure.count = 21 /\ pure.margin = 2
    /\ pure.cell = 16 /\ pure.actual = 400

\* C21 (as claimed): when the template kind is none of the kinds of the
\* switch, or no template is selected at all, getContent returns the
\* constant https://github.com and does not throw
DefaultUrlFallback ==
    (pure.op = "encoded" /\ pure.f.template \notin KnownTemplates) =>
      pure.out = Ok(<<"https://github.com">>)

\* C22 (as claimed): every value the encoder places in a query string is
\* percent-encoded, and the values of the scheme and path are placed as
\* they are (after sanitizing)
PercentEncoded(v) == [i \in 1..Len(v) |-> PctEncode(v[i])]

\* the chunks between the parameter name key and the next "&" or the end
ParamValue(out, key) ==
    LET i == CHOOSE k \in 1..Len(out) : out[k] = key
        rest == SubSeq(out, i + 1, Len(out))
        stops == {k \in 1..Len(rest) : rest[k] = "&"}
        j == IF stops = {} THEN Len(rest) + 1 ELSE CHOOSE k \in stops : \A m \in stops : k <= m
    IN  SubSeq(rest, 1, j - 1)

QueryParam(key, value) == IF value # <<>> THEN <<(<<key, value>>)>> ELSE <<>>

\* the values the form places in a query string, each with the chunk that
\* names its parameter
QueryParams(f) ==
    CASE f.template = "bitcoin" ->
           QueryParam("amount=", sanitizeInput(f.btcAmount))
           \o QueryParam("label=", sanitizeInput(f.btcLabel))
           \o QueryParam("message=", sanitizeInput(f.btcMessage))
      [] f.template = "geo" ->
           IF sanitizeInput(f.geoLatitude) = <<>> \/ sanitizeInput(f.geoLongitude) = <<>>
           THEN <<>>
           ELSE QueryParam("?q=", sanitizeInput(f.geoQuery))
      [] f.template = "email" ->
           QueryParam("subject=", sanitizeInput(f.emailSubject))
           \o QueryParam("body=", sanitizeInput(f.emailBody))
      [] f.template = "sms" -> QueryParam("?body=", sanitizeInput(f.smsMessage))
      [] f.template = "app" ->
           IF Str(f.appPlatform) = "android"
           THEN QueryParam("https://play.google.com/store/apps/details?id=",
                           sanitizeInput(f.appId))
           ELSE <<>>
      [] OTHER -> <<>>

\* the scheme and path the content starts with
SchemeAndPath(f) ==
    CASE f.template = "bitcoin" -> <<"bitcoin:">> \o sanitizeInput(f.btcAddress)
      [] f.template = "geo" ->
           IF sanitizeInput(f.geoLatitude) = <<>> \/ sanitizeInput(f.geoLongitude) = <<>>
           THEN <<"geo:0,0">>
           ELSE <<"geo:">> \o sanitizeInput(f.geoLatitude) \o <<",">>
                \o sanitizeInput(f.geoLongitude)
      [] f.template = "email" ->
           <<"mailto:">> \o OrElse(sanitizeInput(f.emailTo), <<"test@example.com">>)
      [] f.template = "sms" ->
           <<"sms:">> \o OrElse(sanitizeInput(f.smsPhone), <<"+1234567890">>)
      [] f.template = "phone" ->
           <<"tel:">> \o OrElse(sanitizeInput(f.phoneNumber), <<"+1234567890">>)
      [] f.template = "app" ->
           IF Str(f.appPlatform) = "ios"
           THEN <<"https://apps.apple.com/app/id">> \o sanitizeInput(f.appId)
           ELSE <<>>
      [] OTHER -> <<>>

QueryEncoded ==
    (pure.op = "encoded" /\ pure.out.ok) =>
      LET out == pure.out.val
          qp == QueryParams(pure.f)
          sp == SchemeAndPath(pure.f)
      IN  /\ Len(out) >= Len(sp)
          /\ SubSeq(out, 1, Len(sp)) = sp
          /\ \A i \in 1..Len(qp) :
               /\ \E k \in 1..Len(out) : out[k] = qp[i][1]
               /\ ParamValue(out, qp[i][1]) = PercentEncoded(qp[i][2])

\* C23 (as claimed): every JPEG export is opaque and its background is
\* the colour of the background input at the time of the download, also
\* when that input was changed after the displayed canvas was generated
JpegBackground ==
    link.fmt = "jpg" =>
      /\ link.href.ok
      /\ link.href.val.type = "image/jpeg"
      /\ link.href.val.opaque
      /\ link.href.val.bg = link.fill

\* C24: the document of every SVG download is one the sanitizer returned:
\* sanitizing it again changes nothing, it holds no node outside the svg
\* profile, and it still has the svg element, the background and the shapes
SvgSanitized ==
    (link.fmt = "svg" /\ link.href.ok) =>
      LET doc == link.href.val.doc
      IN  /\ svgSanitize(doc) = doc
          /\ \A i \in 1..Len(doc) : doc[i].node \in SvgAllowed
          /\ Len(doc) = 3
          /\ doc[1].node = "svg"

\* an SVG was downloaded after the background colour was changed
SvgSanitizedWitness ==
    /\ link.fmt = "svg"
    /\ link.href.ok
    /\ link.href.val.type = "image/svg+xml"
    /\ link.href.val.doc[2].fill = <<"#ff0000">>

\* C25 (as claimed): no step of the page writes to localStorage
StorageNeverWritten == [][localStorage' = localStorage]_vars

\* C26: a click that is accepted switches the applied theme to the other
\* one and saves it; after any clicks the saved theme is the applied one
ThemeToggle ==
    [][/\ theme'.clicks # theme.clicks =>
            /\ theme'.applied # theme.applied
            /\ theme'.applied \in {"light", "dark"}
            /\ localStorage'.theme = theme'.applied
       /\ theme'.clicks > 0 => localStorage'.theme = theme'.applied]_vars

\* the theme was toggled twice and the system scheme changed after that
ThemeToggleWitness ==
    /\ theme.clicks = 2
    /\ theme.applied = "light"
    /\ theme.systemDark
    /\ localStorage.theme = "light"

\* C27: a change of the system scheme changes the applied theme only while
\* nothing is saved; with a saved theme (so after any manual toggle) it
\* leaves the applied theme as it is
SystemChangeRespectsSaved ==
    [][theme'.systemDark # theme.systemDark =>
         IF localStorage.theme = "null"
         THEN theme'.applied = (IF theme'.systemDark THEN "dark" ELSE "light")
         ELSE theme'.applied = theme.applied]_vars

\* after a manual toggle to light the system scheme went dark and the
\* page stayed light
SystemChangeWitness ==
    /\ theme.clicks = 1
    /\ theme.systemDark
    /\ theme.applied = "light"
    /\ localStorage.theme = "light"
    /\ ~theme.isToggling

\* a call that sends data out: a fetch or XMLHttpRequest with a method
\* other than GET, HEAD and OPTIONS, a beacon, a WebSocket
IsOutbound(call) ==
    \/ call.api \in {"beacon", "websocket"}
    \/ call.api \in {"fetch", "xhr"} /\ call.method \notin {"GET", "HEAD", "OPTIONS"}

Warning(m) == m.className = "no-outbound outbound-warning"

\* C28: every outbound call (a fetch or XMLHttpRequest whose method is not
\* GET, HEAD or OPTIONS, a sendBeacon, a WebSocket construction) adds an
\* entry to the log, adds one to the outbound counter and raises the
\* warning; the warning is never cleared and the counter never decreases
OutboundDetected ==
    [][/\ monitor'.calls = monitor.calls + 1 /\ IsOutbound(monitor'.last) =>
            /\ monitor'.added = monitor.added + 1
            /\ Head(monitor'.log).n = monitor'.added
            /\ monitor'.outboundCount = monitor.outboundCount + 1
            /\ Warning(monitor')
       /\ Warning(monitor) => Warning(monitor')
       /\ monitor'.outboundCount >= monitor.outboundCount]_vars

\* C29: the log shows the last LOG_LIMIT entries added (all of them while
\* there are fewer), the newest first; totalRequests is the number of
\* addEntry calls and outboundCount does not exceed it
LogShowsLatest ==
    /\ Len(monitor.log) = (IF monitor.added < LOG_LIMIT THEN monitor.added ELSE LOG_LIMIT)
    /\ \A i \in 1 .. Len(monitor.log) : monitor.log[i].n = monitor.added + 1 - i
    /\ monitor.totalRequests = monitor.added
    /\ monitor.outboundCount <= monitor.totalRequests

\* more than LOG_LIMIT entries were added, two of them for outbound calls,
\* and the older of the two has left the log
LogShowsLatestWitness ==
    /\ monitor.added = LOG_LIMIT + 2
    /\ monitor.outboundCount = 2
    /\ Len(monitor.log) = LOG_LIMIT
    /\ Cardinality({i \in 1 .. Len(monitor.log) : monitor.log[i].type # "script"}) = 1

\* the timers whose callback calls generate()
GenerateTimers == {t \in timers : t.kind \in {"debounce", "initial"}}

\* C30: once cleanup() has run the cache is empty and the canvases are
\* released, state.debounceTimer, state.logo and state.canvas are null, the
\* tracked listeners are removed, isInitialized is false, and no generation
\* runs any more: none is in flight and no timer is left to start one
CleanedUp ==
    lifecycle.cleaned =>
        /\ cache = <<>>
        /\ \A i \in DOMAIN canvases : canvases[i].width = 0
        /\ debounceTimer = 0
        /\ logo = 0
        /\ canvas = 0
        /\ lifecycle.eventListeners = "removed"
        /\ ~lifecycle.isInitialized
        /\ stack = <<>>
        /\ ~generating
        /\ GenerateTimers = {}

\* C31: when loading the optional modules fails, init() ends with every
\* core call made exactly once and one initial generation scheduled, due
\* INITIAL_GENERATION_DELAY after the call
FallbackSetsUpOnce ==
    /\ [](boot.phase = "done" /\ boot.failAt \in Range(LoadSteps) =>
            /\ \A c \in DOMAIN boot.count : boot.count[c] = 1
            /\ boot.scheduled = 1
            /\ Cardinality(timers) = 1
            /\ lifecycle.eventListeners = "attached")
    /\ [][boot'.scheduled # boot.scheduled =>
            \E t \in timers' \ timers :
               t.kind = "initial" /\ t.remaining = INITIAL_GENERATION_DELAY]_vars

\* the import failed and init() has come to its end through the catch block
FallbackSetsUpOnceWitness ==
    /\ boot.phase = "done"
    /\ boot.failAt = "import"
    /\ status.type = "error"
    /\ boot.scheduled = 1

\* generate() finds the configuration of the canvas on display in the cache
Redisplayed ==
    /\ DebounceFire \/ InitialFire
    /\ IsHit
    /\ canvas # 0
    /\ canvases[canvas].key = getConfigHash(form, logo).val

\* C32 (as claimed): a generation with the configuration of the displayed
\* canvas leaves that canvas on display as it was, with its size and its
\* pixels, and a PNG download exports an image and never an empty canvas
RegenerateIdempotent ==
    /\ [][Redisplayed => /\ canvas' = canvas
                         /\ qrcodeDiv' = canvas
                         /\ canvases'[canvas] = canvases[canvas]
                         /\ canvases'[canvas].width > 0]_vars
    /\ [](link.fmt = "png" => /\ link.href.val.type = "image/png"
                              /\ link.href.val.width > 0)

\* C33 (as claimed): a generation that completes while a logo is present
\* leaves on display a canvas rendered with the image state.logo holds,
\* never one rendered with an earlier logo
LogoShown ==
    [][DisplayStep /\ logo # 0 => canvases'[canvas'].logo = logo]_vars

\* C34 (as claimed): never more than one debounce timer is pending, and
\* between two tasks state.debounceTimer is non-null exactly when one is,
\* also after a triggering event dispatched inside the timer callback
DebounceTimerTracked ==
    /\ Cardinality(DebounceTimers) <= 1
    /\ AtTopLevel => (debounceTimer # 0 <=> DebounceTimers # {})

\* C35 (as claimed): the logo follows the last logo action of the user
\* whatever the order of the load callbacks: while the upload field is
\* cleared there is no logo, and once every load has arrived after an
\* accepted file was picked, the logo is that file
LogoFollowsUser ==
    /\ hist.picked = 0 => logo = 0
    /\ (/\ hist.picked # 0
        /\ uploads = {}
        /\ logoFileError(build, CHOOSE file \in Files : file.img = hist.picked) = "")
         => logo = hist.picked

\* C36 (as claimed): while a logo is present every generate() call and
\* every rendering reads the error-correction level H, whatever the user
\* did with the selector since the logo was set
LogoKeepsH ==
    [][(DebounceFire \/ InitialFire \/ GenTry) /\ logo # 0 => form.ec = <<"H">>]_vars

====
